---- MODULE Spec2Model ----
(***************************************************************************)
(* A model of the dedit conversion engine: the list-numbering tracker,     *)
(* the DOCX parser, the projection to the Tiptap JSON tree, the raw-style   *)
(* extraction / restoration of the backend, and the DOCX exporter.          *)
(*                                                                         *)
(* Python values are modelled as follows.  A dict is a function (key        *)
(* presence is membership in DOMAIN), a list is a sequence, None is the     *)
(* string None where the other values are strings, and a JSON node is a     *)
(* record whose DOMAIN holds exactly the keys the node has.  A string the   *)
(* code takes apart (a label template, a style name) is kept as the parts   *)
(* the code distinguishes.                                                  *)
(***************************************************************************)
EXTENDS Integers, Sequences, FiniteSets, TLC

VARIABLES
    pc,                 \* which step of the scenario comes next
    numbering,          \* the numbering-definitions part of the container
    counters,           \* NumberingTracker.counters
    numbering_formats,  \* NumberingTracker._numbering_formats
    num_to_abstract,    \* NumberingTracker._num_to_abstract (and whether it was ever assigned)
    calls,              \* log of the get_number calls made so far, in call order
    container,          \* the body of the container being parsed
    pos,                \* index of the next body element of parse_docx's loop
    elements,           \* the list parse_docx builds / the list handed to to_tiptap
    uuid,               \* number of uuid4() ids drawn so far
    comments,           \* the comment registry handed to the projection
    tiptap_doc,         \* the Tiptap document as it was handed to extract_raw_styles
    tiptap,             \* the Tiptap document
    styles,             \* the extracted raw styles
    document            \* the python-docx Document the exporter builds

trackerVars == <<numbering, counters, numbering_formats, num_to_abstract, calls>>
parseVars == <<container, pos, elements, uuid>>
treeVars == <<comments, tiptap_doc, tiptap, styles, document>>
vars == <<pc, trackerVars, parseVars, treeVars>>

----
(* Bounds of the model *)

MaxCalls == 4
MaxLevel == 2

(* Program constants *)

NumLevels == 10

None == "None"

(* dict helpers *)
EmptyDict == <<>>

Put(d, k, v) == (k :> v) @@ d

Get(d, k, default) == IF k \in DOMAIN d THEN d[k] ELSE default

Levels == 0 .. (NumLevels - 1)

----
(* Label templates: "%1." is <<Ph(1), Lit(".")>> *)

Ph(k) == [ph |-> k]

Lit(s) == [lit |-> s]

IsPh(tok) == "ph" \in DOMAIN tok

DefaultLvlText == <<Ph(1), Lit(".")>>

RECURSIVE Str(_)
(* the string a sequence of string pieces spells *)
Str(pieces) ==
    IF pieces = <<>> THEN "" ELSE Head(pieces) \o Str(Tail(pieces))

TokenStr(tok) == IF IsPh(tok) THEN "%" \o ToString(tok.ph) ELSE tok.lit

TemplateStr(toks) == Str([j \in 1 .. Len(toks) |-> TokenStr(toks[j])])

(* str.replace("%k", formatted) on a template *)
replace(result, k, formatted) ==
    [j \in 1 .. Len(result) |->
        IF result[j] = Ph(k) THEN Lit(formatted) ELSE result[j]]

----
(* NumberingTracker._to_roman, _format_number *)

(* a table without the subtractive pairs *)
RomanTable_Additive ==
    << <<1000, <<"M">> >>, <<500, <<"D">> >>, <<100, <<"C">> >>, <<50, <<"L">> >>,
       <<10, <<"X">> >>, <<5, <<"V">> >>, <<1, <<"I">> >> >>

RomanTable ==
    << <<1000, <<"M">> >>, <<900, <<"C", "M">> >>, <<500, <<"D">> >>,
       <<400, <<"C", "D">> >>, <<100, <<"C">> >>, <<90, <<"X", "C">> >>,
       <<50, <<"L">> >>, <<40, <<"X", "L">> >>, <<10, <<"X">> >>,
       <<9, <<"I", "X">> >>, <<5, <<"V">> >>, <<4, <<"I", "V">> >>,
       <<1, <<"I">> >> >>

RECURSIVE RomanLoop(_, _, _)
RomanLoop(n, idx, result) ==
    IF idx > Len(RomanTable) THEN result
    ELSE IF n >= RomanTable[idx][1]
         THEN RomanLoop(n - RomanTable[idx][1], idx, result \o RomanTable[idx][2])
         ELSE RomanLoop(n, idx + 1, result)

_to_roman(n) == IF n <= 0 THEN <<ToString(n)>> ELSE RomanLoop(n, 1, <<>>)

LowerChar(c) ==
    CASE c = "M" -> "m" [] c = "D" -> "d" [] c = "C" -> "c" [] c = "L" -> "l"
      [] c = "X" -> "x" [] c = "V" -> "v" [] c = "I" -> "i" [] OTHER -> c

lower(s) == [j \in 1 .. Len(s) |-> LowerChar(s[j])]

LowerLetters ==
    <<"a", "b", "c", "d", "e", "f", "g", "h", "i", "j", "k", "l", "m",
      "n", "o", "p", "q", "r", "s", "t", "u", "v", "w", "x", "y", "z">>

UpperLetters ==
    <<"A", "B", "C", "D", "E", "F", "G", "H", "I", "J", "K", "L", "M",
      "N", "O", "P", "Q", "R", "S", "T", "U", "V", "W", "X", "Y", "Z">>

Bullet == "(bullet)"

_format_number(n, fmt) ==
    CASE fmt = "decimal" -> ToString(n)
      [] fmt = "lowerLetter" ->
            IF 1 <= n /\ n <= 26 THEN LowerLetters[n] ELSE ToString(n)
      [] fmt = "upperLetter" ->
            IF 1 <= n /\ n <= 26 THEN UpperLetters[n] ELSE ToString(n)
      [] fmt = "lowerRoman" -> Str(lower(_to_roman(n)))
      [] fmt = "upperRoman" -> Str(_to_roman(n))
      [] fmt = "bullet" -> Bullet
      [] OTHER -> ToString(n)

----
(* NumberingTracker._extract_numbering_formats: the state __init__ leaves *)

RECURSIVE LevelsDict(_)
LevelsDict(lvls) ==
    IF lvls = <<>> THEN EmptyDict
    ELSE LET lvl == lvls[Len(lvls)]
         IN  Put(LevelsDict(SubSeq(lvls, 1, Len(lvls) - 1)), lvl.ilvl,
                 [format |-> Get(lvl, "numFmt", "decimal"),
                  text |-> Get(lvl, "lvlText", DefaultLvlText)])

RECURSIVE FormatsDict(_)
FormatsDict(abstractNums) ==
    IF abstractNums = <<>> THEN EmptyDict
    ELSE LET a == abstractNums[Len(abstractNums)]
         IN  Put(FormatsDict(SubSeq(abstractNums, 1, Len(abstractNums) - 1)),
                 a.abstractNumId, LevelsDict(a.lvls))

RECURSIVE NumToAbstractDict(_)
NumToAbstractDict(nums) ==
    IF nums = <<>> THEN EmptyDict
    ELSE LET num == nums[Len(nums)]
             rest == NumToAbstractDict(SubSeq(nums, 1, Len(nums) - 1))
         IN  IF "abstractNumId" \in DOMAIN num
             THEN Put(rest, num.numId, num.abstractNumId)
             ELSE rest

(* The early returns (no numbering part) come before _num_to_abstract is assigned. *)
_extract_numbering_formats(part) ==
    IF ~part.present
    THEN [formats |-> EmptyDict, num_to_abstract |-> [assigned |-> FALSE, map |-> EmptyDict]]
    ELSE [formats |-> FormatsDict(part.abstractNums),
          num_to_abstract |-> [assigned |-> TRUE, map |-> NumToAbstractDict(part.nums)]]

----
(* NumberingTracker.get_number *)

ZeroCounters == [i \in Levels |-> 0]

(* Advance with "= 1" in place of "+= 1" *)
Advance_Restart(cs, num_id, ilvl) ==
    LET c0 == IF num_id \in DOMAIN cs THEN cs ELSE Put(cs, num_id, ZeroCounters)
    IN  Put(c0, num_id,
            [i \in Levels |->
                IF i = ilvl THEN 1 ELSE IF i > ilvl THEN 0 ELSE c0[num_id][i]])

(* Advance without the reset loop of lines 139-140 *)
Advance_NoReset(cs, num_id, ilvl) ==
    LET c0 == IF num_id \in DOMAIN cs THEN cs ELSE Put(cs, num_id, ZeroCounters)
    IN  Put(c0, num_id,
            [i \in Levels |-> IF i = ilvl THEN c0[num_id][i] + 1 ELSE c0[num_id][i]])

(* Advance with a reset loop over every other level *)
Advance_ResetOthers(cs, num_id, ilvl) ==
    LET c0 == IF num_id \in DOMAIN cs THEN cs ELSE Put(cs, num_id, ZeroCounters)
    IN  Put(c0, num_id,
            [i \in Levels |-> IF i = ilvl THEN c0[num_id][i] + 1 ELSE 0])

(* lines 134-140: lazy initialisation, increment, reset of the deeper levels *)
Advance(cs, num_id, ilvl) ==
    LET c0 == IF num_id \in DOMAIN cs THEN cs ELSE Put(cs, num_id, ZeroCounters)
    IN  Put(c0, num_id,
            [i \in Levels |->
                IF i = ilvl THEN c0[num_id][i] + 1
                ELSE IF i > ilvl THEN 0 ELSE c0[num_id][i]])

(* LevelInfo with the fallback template "%1" (no full stop) on line 150 *)
LevelInfo_BareDefault(formats, n2a, num_id, ilvl) ==
    LET abstract_id == Get(n2a, num_id, None)
    IN  IF abstract_id # None /\ abstract_id # "" /\ abstract_id \in DOMAIN formats
        THEN Get(formats[abstract_id], ilvl,
                 [format |-> "decimal", text |-> DefaultLvlText])
        ELSE [format |-> "decimal", text |-> <<Ph(1)>>]

(* lines 143-150: the format and the template of the level *)
LevelInfo(formats, n2a, num_id, ilvl) ==
    LET abstract_id == Get(n2a, num_id, None)
    IN  IF abstract_id # None /\ abstract_id # "" /\ abstract_id \in DOMAIN formats
        THEN Get(formats[abstract_id], ilvl,
                 [format |-> "decimal", text |-> DefaultLvlText])
        ELSE [format |-> "decimal", text |-> DefaultLvlText]

(* line 157: the format a placeholder's counter is rendered in *)
PlaceholderFormat(i, ilvl, num_fmt) == IF i = ilvl THEN num_fmt ELSE "decimal"

RECURSIVE BuildLabel(_, _, _, _, _)
(* lines 153-159: the loop over i = 0 .. ilvl *)
BuildLabel(result, row, i, ilvl, num_fmt) ==
    IF i > ilvl THEN result
    ELSE BuildLabel(
            replace(result, i + 1,
                    _format_number(row[i], PlaceholderFormat(i, ilvl, num_fmt))),
            row, i + 1, ilvl, num_fmt)

(* The whole call on a tracker [counters, formats, num_to_abstract]: the new
   counters, and the label or the exception that ends the call. *)
get_number(cs, formats, n2a, num_id, ilvl) ==
    LET c1 == Advance(cs, num_id, ilvl)
    IN  IF ~n2a.assigned
        THEN [counters |-> c1, raised |-> "AttributeError", label |-> None]
        ELSE LET info == LevelInfo(formats, n2a.map, num_id, ilvl)
             IN  [counters |-> c1, raised |-> None,
                  label |-> TemplateStr(
                      BuildLabel(info.text, c1[num_id], 0, ilvl, info.format))]

----
(* The container body as python-docx presents it.  A body element is
     [tag |-> "w:p", runs, style, numPr?]   a paragraph,
     [tag |-> "w:tbl", rows]                a table; a row is [cells], a cell
                                            is [blocks], its w:p and w:tbl
                                            children in document order,
     [tag |-> "w:sectPr"]                   anything else.
   run.bold and run.italic are "True", "False" or "None" (inherited).
   A style name is spelled base \o sep \o suffix. *)

StyleName(style) == style.base \o style.sep \o style.suffix

(* int(s) for the strings of the model: the value, or -1 for ValueError *)
MaxStyleNumber == 12

int(s) ==
    IF \E n \in 0 .. MaxStyleNumber : ToString(n) = s
    THEN CHOOSE n \in 0 .. MaxStyleNumber : ToString(n) = s
    ELSE -1

(* lines 221-228: the heading level of a style name *)
HeadingLevel(style) ==
    IF style.base = "Heading"                         \* startswith("Heading")
    THEN LET rest == IF style.sep = " " THEN style.suffix    \* replace("Heading ", "")
                     ELSE StyleName(style)
         IN  IF int(rest) >= 0 THEN int(rest) ELSE 0  \* except ValueError: pass
    ELSE 0

(* lines 210-219: the runs that have text *)
ParseRuns(runs) ==
    LET kept == SelectSeq(runs, LAMBDA run : run.text # "")
    IN  [j \in 1 .. Len(kept) |->
            [text |-> kept[j].text,
             bold |-> (kept[j].bold = "True"),
             italic |-> (kept[j].italic = "True")]]

(* lines 232-240: the paragraph asks the tracker for a number *)
AsksNumber(para) ==
    /\ "numPr" \in DOMAIN para
    /\ "ilvl" \in DOMAIN para.numPr
    /\ "numId" \in DOMAIN para.numPr
    /\ para.numPr.numId # "0"

Paragraph(runs, style, numbering_label, level) ==
    [cls |-> "Paragraph", runs |-> runs, style |-> style,
     numbering |-> numbering_label, level |-> level]

(* The parse state threaded through one pass: the tracker's counters, the log
   of its calls, the uuid4() ids drawn, and the exception that ended the pass. *)
ParseState(cs, log, ids, raised) ==
    [counters |-> cs, calls |-> log, uuid |-> ids, raised |-> raised]

(* lines 241-245: the state and the Paragraph after the tracker answered r *)
Numbered(st, para, r) ==
    [st |-> ParseState(r.counters,
                Append(st.calls,
                    [num_id |-> para.numPr.numId, ilvl |-> para.numPr.ilvl,
                     before |-> st.counters, after |-> r.counters,
                     raised |-> r.raised, label |-> r.label]),
                st.uuid, r.raised),
     val |-> Paragraph(ParseRuns(para.runs), StyleName(para.style),
                       r.label, HeadingLevel(para.style))]

(* parse_paragraph: the parsed Paragraph and the state it leaves *)
parse_paragraph(st, para) ==
    IF st.raised # None THEN [st |-> st, val |-> None]
    ELSE IF AsksNumber(para)
    THEN Numbered(st, para,
            get_number(st.counters, numbering_formats, num_to_abstract,
                       para.numPr.numId, para.numPr.ilvl))
    ELSE [st |-> st,
          val |-> Paragraph(ParseRuns(para.runs), StyleName(para.style),
                            None, HeadingLevel(para.style))]

CellParagraphs(cell) == SelectSeq(cell.blocks, LAMBDA b : b.tag = "w:p")

CellTables(cell) == SelectSeq(cell.blocks, LAMBDA b : b.tag = "w:tbl")

Table(id, rows) == [cls |-> "Table", id |-> id, rows |-> rows]

TableId(n) == "tbl-" \o ToString(n)

(* In the loops below acc is [st, val]: the parse state and the list built so far. *)

(* line 262: only a paragraph with runs is added to the cell *)
AddCellParagraph(content, r) ==
    [st |-> r.st,
     val |-> IF r.st.raised = None /\ r.val.runs # <<>>
             THEN Append(content, r.val) ELSE content]

RECURSIVE ParseCellParagraphs(_, _)
(* lines 260-263: every paragraph of the cell is parsed *)
ParseCellParagraphs(acc, paras) ==
    IF paras = <<>> \/ acc.st.raised # None THEN acc
    ELSE ParseCellParagraphs(
            AddCellParagraph(acc.val, parse_paragraph(acc.st, Head(paras))),
            Tail(paras))

AddTo(list, r) == [st |-> r.st, val |-> Append(list, r.val)]

(* lines 271-275: an empty cell gets one paragraph with one empty run *)
AddCell(parsed, r) ==
    [st |-> r.st,
     val |-> Append(parsed,
                [content |->
                    IF r.val = <<>>
                    THEN << Paragraph(<<[text |-> "", bold |-> FALSE, italic |-> FALSE]>>,
                                      None, None, 0) >>
                    ELSE r.val])]

AddRow(parsed, r) == [st |-> r.st, val |-> Append(parsed, [cells |-> r.val])]

MakeTable(id, r) == [st |-> r.st, val |-> Table(id, r.val)]

Fresh(st, list) == [st |-> st, val |-> list]

(* the blocks of a cell in the order the loops of lines 260-269 visit them *)
CellVisitOrder(cell) == <<CellParagraphs(cell), CellTables(cell)>>

RECURSIVE parse_table(_, _)
RECURSIVE ParseCellTables(_, _)
RECURSIVE ParseCells(_, _)
RECURSIVE ParseRows(_, _)

(* lines 266-269: the tables nested in the cell *)
ParseCellTables(acc, tables) ==
    IF tables = <<>> \/ acc.st.raised # None THEN acc
    ELSE ParseCellTables(AddTo(acc.val, parse_table(acc.st, Head(tables))), Tail(tables))

(* lines 256-275: the cells of a row; in a cell all paragraphs, then all tables *)
ParseCells(acc, cells) ==
    IF cells = <<>> \/ acc.st.raised # None THEN acc
    ELSE ParseCells(
            AddCell(acc.val,
                ParseCellTables(
                    ParseCellParagraphs(Fresh(acc.st, <<>>), CellVisitOrder(Head(cells))[1]),
                    CellVisitOrder(Head(cells))[2])),
            Tail(cells))

(* lines 254-277: the rows of a table *)
ParseRows(acc, rows) ==
    IF rows = <<>> \/ acc.st.raised # None THEN acc
    ELSE ParseRows(AddRow(acc.val, ParseCells(Fresh(acc.st, <<>>), Head(rows).cells)),
                   Tail(rows))

(* parse_table: Table() draws its id first *)
parse_table(st, table) ==
    MakeTable(TableId(st.uuid + 1),
        ParseRows(Fresh(ParseState(st.counters, st.calls, st.uuid + 1, st.raised), <<>>),
                  table.rows))

----
(* backend/parser/docx_parser.py: elements_to_dict.  A dataclass value has
   the key cls, a dict has not. *)

IsDict(elem) == "cls" \notin DOMAIN elem

IsA(elem, cls) == "cls" \in DOMAIN elem /\ elem.cls = cls

RunDict(r) == [text |-> r.text, bold |-> r.bold, italic |-> r.italic]

RECURSIVE elements_to_dict(_)
elements_to_dict(elems) ==
    LET one(elem) ==
            IF IsA(elem, "Paragraph")
            THEN << [type |-> "paragraph",
                     runs |-> [j \in 1 .. Len(elem.runs) |-> RunDict(elem.runs[j])],
                     style |-> elem.style,
                     numbering |-> elem.numbering,
                     level |-> elem.level] >>
            ELSE IF IsA(elem, "Table")
            THEN << [type |-> "table",
                     id |-> elem.id,
                     rows |-> [r \in 1 .. Len(elem.rows) |->
                        [cells |-> [c \in 1 .. Len(elem.rows[r].cells) |->
                            [content |-> elements_to_dict(elem.rows[r].cells[c].content)]]]]] >>
            ELSE IF IsA(elem, "Section")
            THEN << [type |-> "section",
                     id |-> elem.id,
                     originalRef |-> elem.original_ref,
                     level |-> elem.level,
                     title |-> elem.title,
                     content |-> elements_to_dict(elem.content),
                     children |-> elements_to_dict(elem.children)] >>
            ELSE <<>>
    IN  IF elems = <<>> THEN <<>>
        ELSE one(Head(elems)) \o elements_to_dict(Tail(elems))

----
(* backend/parser/tiptap_converter.py *)

(* a filler that holds a text node *)
EmptyParagraphNode_WithText ==
    [type |-> "paragraph", content |-> << [type |-> "text", text |-> ""] >>]

EmptyParagraphNode == [type |-> "paragraph"]

NestedTablePlaceholder ==
    [type |-> "paragraph",
     content |-> << [type |-> "text", text |-> "[Nested table content]"] >>]

(* truthiness of an Optional[str] *)
Truthy(s) == s # None /\ s # ""

BoldItalicMarks(bold, italic) ==
    (IF bold THEN << [type |-> "bold"] >> ELSE <<>>)
    \o (IF italic THEN << [type |-> "italic"] >> ELSE <<>>)

text_run_to_tiptap(run) ==
    LET marks == BoldItalicMarks(run.bold, run.italic)
    IN  IF marks # <<>>
        THEN [type |-> "text", text |-> run.text, marks |-> marks]
        ELSE [type |-> "text", text |-> run.text]

NumberingText(label) == [type |-> "text", text |-> label \o " "]

(* lines 36-40: the label goes in front of the content *)
WithNumbering(label, content) ==
    IF Truthy(label) /\ content # <<>>
    THEN <<NumberingText(label)>> \o content
    ELSE content

(* line 46: min(level, 6) *)
ClampLevel(level) == IF level < 6 THEN level ELSE 6

HeadingOrParagraph(level, content) ==
    IF level > 0
    THEN [type |-> "heading", attrs |-> [level |-> ClampLevel(level)], content |-> content]
    ELSE [type |-> "paragraph", content |-> content]

paragraph_to_tiptap(para) ==
    LET kept == SelectSeq(para.runs, LAMBDA run : run.text # "")
        content == [j \in 1 .. Len(kept) |-> text_run_to_tiptap(kept[j])]
    IN  HeadingOrParagraph(para.level, WithNumbering(para.numbering, content))

(* every row a body row *)
CellType_Body(row_idx) == "tableCell"

CellType(row_idx) == IF row_idx = 0 THEN "tableHeader" ELSE "tableCell"

(* line 164: the level of the heading made from a section's title *)
SectionHeadingLevel(level) == level

RECURSIVE convert_dict_element(_)
convert_dict_element(elem) ==
    IF elem.type = "paragraph"
    THEN LET runs == Get(elem, "runs", <<>>)
             kept == SelectSeq(runs, LAMBDA run : run.text # "")
             content == [j \in 1 .. Len(kept) |->
                 LET marks == BoldItalicMarks(Get(kept[j], "bold", FALSE),
                                              Get(kept[j], "italic", FALSE))
                 IN  IF marks # <<>>
                     THEN [type |-> "text", text |-> kept[j].text, marks |-> marks]
                     ELSE [type |-> "text", text |-> kept[j].text]]
         IN  HeadingOrParagraph(Get(elem, "level", 0),
                                WithNumbering(Get(elem, "numbering", None), content))
    ELSE IF elem.type = "table"
    THEN LET rows == Get(elem, "rows", <<>>)
         IN  [type |-> "table",
              attrs |-> [id |-> Get(elem, "id", "uuid4")],
              content |-> [r \in 1 .. Len(rows) |->
                [type |-> "tableRow",
                 content |-> [c \in 1 .. Len(Get(rows[r], "cells", <<>>)) |->
                    LET cell == rows[r].cells[c]
                        items == Get(cell, "content", <<>>)
                        cell_content == [k \in 1 .. Len(items) |->
                                            convert_dict_element(items[k])]
                    IN  [type |-> CellType(r - 1),
                         content |-> IF cell_content = <<>>
                                     THEN <<EmptyParagraphNode>>
                                     ELSE cell_content]]]]]
    ELSE IF elem.type = "section"
    THEN LET title == Get(elem, "title", "")
             heading == IF title # "" /\ title # None
                        THEN << [type |-> "heading",
                                 attrs |-> [level |-> SectionHeadingLevel(Get(elem, "level", 1))],
                                 content |-> << [type |-> "text", text |-> title] >>] >>
                        ELSE <<>>
             items == Get(elem, "content", <<>>)
             children == Get(elem, "children", <<>>)
             content == heading
                        \o [k \in 1 .. Len(items) |-> convert_dict_element(items[k])]
                        \o [k \in 1 .. Len(children) |-> convert_dict_element(children[k])]
         IN  [type |-> "section",
              attrs |-> [id |-> Get(elem, "id", "uuid4"),
                         originalRef |-> Get(elem, "originalRef", None),
                         level |-> Get(elem, "level", 1)],
              content |-> IF content # <<>> THEN content ELSE <<EmptyParagraphNode>>]
    ELSE EmptyParagraphNode

(* lines 65-84: one element of a cell; none for an element of another kind *)
CellElement(elem) ==
    IF IsA(elem, "Paragraph") THEN <<paragraph_to_tiptap(elem)>>
    ELSE IF IsA(elem, "Table") THEN <<NestedTablePlaceholder>>
    ELSE IF IsDict(elem) THEN <<convert_dict_element(elem)>>
    ELSE <<>>

RECURSIVE Flatten(_)
Flatten(seqs) == IF seqs = <<>> THEN <<>> ELSE Head(seqs) \o Flatten(Tail(seqs))

table_to_tiptap(table) ==
    [type |-> "table",
     attrs |-> [id |-> table.id],
     content |-> [r \in 1 .. Len(table.rows) |->
        [type |-> "tableRow",
         content |-> [c \in 1 .. Len(table.rows[r].cells) |->
            LET items == table.rows[r].cells[c].content
                cell_content == Flatten([k \in 1 .. Len(items) |-> CellElement(items[k])])
            IN  [type |-> CellType(r - 1),
                 content |-> IF cell_content = <<>>
                             THEN <<EmptyParagraphNode>>
                             ELSE cell_content]]]]]

(* lines 202-212: one element of the list; none for an element of another kind *)
TopElement(elem) ==
    IF IsA(elem, "Paragraph") THEN <<paragraph_to_tiptap(elem)>>
    ELSE IF IsA(elem, "Table") THEN <<table_to_tiptap(elem)>>
    ELSE IF IsA(elem, "Section") THEN <<convert_dict_element(elements_to_dict(<<elem>>)[1])>>
    ELSE IF IsDict(elem) THEN <<convert_dict_element(elem)>>
    ELSE <<>>

to_tiptap(elems) ==
    LET content == Flatten([k \in 1 .. Len(elems) |-> TopElement(elems[k])])
    IN  [type |-> "doc",
         content |-> IF content = <<>> THEN <<EmptyParagraphNode>> ELSE content]

----
(* backend/parser/docx_exporter.py, on the python-docx Document it builds:
   [body, raised], the body holding paragraphs and tables in the shape of the
   container body above.  A table cell is addressed by [t, r, c]: the index of
   its table in the body, its row and its column. *)

Style(base, sep, suffix) == [base |-> base, sep |-> sep, suffix |-> suffix]

Normal == Style("Normal", "", "")

NewParagraph(style) == [tag |-> "w:p", style |-> style, runs |-> <<>>]

NoCell == [t |-> 0, r |-> 0, c |-> 0]

ParaText(para) == Str([j \in 1 .. Len(para.runs) |-> para.runs[j].text])

apply_marks_BoldOnly(run, marks) ==
    [run EXCEPT
        !.bold = IF \E j \in 1 .. Len(marks) : marks[j].type = "bold" THEN "True" ELSE @]

(* lines 217-223: bold and italic are set, every other mark is ignored *)
apply_marks(run, marks) ==
    [run EXCEPT
        !.bold = IF \E j \in 1 .. Len(marks) : marks[j].type = "bold" THEN "True" ELSE @,
        !.italic = IF \E j \in 1 .. Len(marks) : marks[j].type = "italic" THEN "True" ELSE @]

NewRun(text) == [text |-> text, bold |-> "None", italic |-> "None"]

add_text_run(para, text_node) ==
    LET text == Get(text_node, "text", "")
    IN  IF text = "" THEN para
        ELSE [para EXCEPT !.runs =
                Append(@, apply_marks(NewRun(text), Get(text_node, "marks", <<>>)))]

RECURSIVE AddTextRuns(_, _)
(* the loop "for text_node in content: if type == text: add_text_run" *)
AddTextRuns(para, content) ==
    IF content = <<>> THEN para
    ELSE AddTextRuns(
            IF Get(Head(content), "type", None) = "text"
            THEN add_text_run(para, Head(content)) ELSE para,
            Tail(content))

RECURSIVE AddBoldRuns(_, _)
(* the loop of a heading in a cell: add_run(text), bold, apply_marks *)
AddBoldRuns(para, content) ==
    IF content = <<>> THEN para
    ELSE AddBoldRuns(
            IF Get(Head(content), "type", None) = "text"
            THEN [para EXCEPT !.runs =
                    Append(@, apply_marks(
                        [NewRun(Get(Head(content), "text", "")) EXCEPT !.bold = "True"],
                        Get(Head(content), "marks", <<>>)))]
            ELSE para,
            Tail(content))

CellBlocks(doc, cell) == doc.body[cell.t].rows[cell.r].cells[cell.c].blocks

SetCellBlocks(doc, cell, blocks) ==
    [doc EXCEPT !.body[cell.t].rows[cell.r].cells[cell.c].blocks = blocks]

process_paragraph(doc, node, table_cell) ==
    LET content == Get(node, "content", <<>>)
    IN  IF table_cell # NoCell
        THEN LET paras == CellBlocks(doc, table_cell)
                 first == IF paras = <<>> THEN <<NewParagraph(Normal)>> ELSE paras
                 reuse == ParaText(first[1]) = "" /\ Len(first) = 1
                 blocks == IF reuse THEN first ELSE Append(first, NewParagraph(Normal))
                 k == Len(blocks)
             IN  SetCellBlocks(doc, table_cell,
                    [blocks EXCEPT ![k] = AddTextRuns(@, content)])
        ELSE [doc EXCEPT !.body = Append(@, AddTextRuns(NewParagraph(Normal), content))]

(* Document.add_heading refuses a level outside 0..9 *)
MaxHeadingStyle == 9

process_heading(doc, node, table_cell) ==
    LET level == Get(Get(node, "attrs", EmptyDict), "level", 1)
        content == Get(node, "content", <<>>)
    IN  IF table_cell # NoCell
        THEN SetCellBlocks(doc, table_cell,
                Append(CellBlocks(doc, table_cell),
                       AddBoldRuns(NewParagraph(Normal), content)))
        ELSE IF level < 0 \/ level > MaxHeadingStyle
        THEN [doc EXCEPT !.raised = "ValueError"]
        ELSE LET style == IF level = 0 THEN Style("Title", "", "")
                          ELSE Style("Heading", " ", ToString(level))
             IN  [doc EXCEPT !.body = Append(@, AddTextRuns(NewParagraph(style), content))]

RowLen(row) == Len(Get(row, "content", <<>>))

(* a table as wide as its first row *)
MaxRowLen_First(rows_data) == RowLen(rows_data[1])

MaxRowLen(rows_data) ==
    CHOOSE n \in { RowLen(rows_data[r]) : r \in 1 .. Len(rows_data) } :
        \A r \in 1 .. Len(rows_data) : RowLen(rows_data[r]) <= n

(* the table doc.add_table(rows, cols) appends, with the style line 147 sets *)
TableStyle(node) == "Table Grid"

(* the raw table-property fragment spliced into the new table: lines 123-176
   never read attrs.rawTblPr, the table keeps the properties add_table and
   line 147 gave it *)
SplicedTblPr(node) == None

NewTable(num_rows, num_cols, style, raw_tblPr) ==
    [tag |-> "w:tbl", style |-> style, raw_tblPr |-> raw_tblPr,
     rows |-> [r \in 1 .. num_rows |->
        [cells |-> [c \in 1 .. num_cols |-> [blocks |-> <<NewParagraph(Normal)>>]]]]]

RECURSIVE process_node(_, _, _), process_table(_, _), process_section(_, _)
RECURSIVE ProcessCellContent(_, _, _, _), ProcessCells(_, _, _, _, _), ProcessRows(_, _, _, _)
RECURSIVE ProcessNodes(_, _)

process_node(doc, node, table_cell) ==
    LET node_type == Get(node, "type", None)
    IN  IF doc.raised # None THEN doc
        ELSE IF node_type = "paragraph" THEN process_paragraph(doc, node, table_cell)
        ELSE IF node_type = "heading" THEN process_heading(doc, node, table_cell)
        ELSE IF node_type = "table" THEN process_table(doc, node)
        ELSE IF node_type = "section" THEN process_section(doc, node)
        ELSE doc

(* lines 160-176: the content nodes of one cell, i counting from 0 *)
ProcessCellContent(doc, cell, cell_content, i) ==
    IF i >= Len(cell_content) \/ doc.raised # None THEN doc
    ELSE LET content_node == cell_content[i + 1]
             paras == CellBlocks(doc, cell)
             kind == Get(content_node, "type", None)
             next == IF i = 0 /\ paras # <<>>
                     THEN IF kind = "paragraph"
                          THEN SetCellBlocks(doc, cell,
                                  [paras EXCEPT ![1] =
                                      AddTextRuns(@, Get(content_node, "content", <<>>))])
                          ELSE IF kind = "heading"
                          THEN SetCellBlocks(doc, cell,
                                  [paras EXCEPT ![1] =
                                      AddBoldRuns(@, Get(content_node, "content", <<>>))])
                          ELSE doc
                     ELSE process_node(doc, content_node, cell)
         IN  ProcessCellContent(next, cell, cell_content, i + 1)

(* lines 151-176: the cell nodes of one row; line 152 passes over a cell node
   beyond the table's columns *)
ProcessCells(doc, t, r, cells, c) ==
    IF c > Len(cells) \/ doc.raised # None THEN doc
    ELSE IF c > Len(doc.body[t].rows[r].cells)
    THEN ProcessCells(doc, t, r, cells, c + 1)
    ELSE LET cell == [t |-> t, r |-> r, c |-> c]
             paras == CellBlocks(doc, cell)
             cleared == IF paras # <<>>
                        THEN SetCellBlocks(doc, cell, [paras EXCEPT ![1].runs = <<>>])
                        ELSE doc
         IN  ProcessCells(
                ProcessCellContent(cleared, cell, Get(cells[c], "content", <<>>), 0),
                t, r, cells, c + 1)

(* lines 149-176: the row nodes *)
ProcessRows(doc, t, rows_data, r) ==
    IF r > Len(rows_data) \/ doc.raised # None THEN doc
    ELSE ProcessRows(ProcessCells(doc, t, r, Get(rows_data[r], "content", <<>>), 1),
                     t, rows_data, r + 1)

process_table(doc, node) ==
    LET rows_data == Get(node, "content", <<>>)
    IN  IF rows_data = <<>> THEN doc
        ELSE IF MaxRowLen(rows_data) = 0 THEN doc
        ELSE LET added == [doc EXCEPT !.body =
                            Append(@, NewTable(Len(rows_data), MaxRowLen(rows_data),
                                               TableStyle(node), SplicedTblPr(node)))]
             IN  ProcessRows(added, Len(added.body), rows_data, 1)

ProcessNodes(doc, nodes) ==
    IF nodes = <<>> THEN doc
    ELSE ProcessNodes(process_node(doc, Head(nodes), NoCell), Tail(nodes))

(* a section whose children are left out *)
process_section_Skip(doc, node) == doc

process_section(doc, node) == ProcessNodes(doc, Get(node, "content", <<>>))

(* Document(), then process_node for every top-level node *)
create_docx_from_tiptap(tiptap_json) ==
    ProcessNodes([body |-> <<>>, raised |-> None], Get(tiptap_json, "content", <<>>))

----
(* The numbering parts and the calls of the tracker scenario *)

ListIds == {"1", "2"}

CallLevels == 0 .. MaxLevel

Lvl(ilvl, numFmt, lvlText) == [ilvl |-> ilvl, numFmt |-> numFmt, lvlText |-> lvlText]

(* level 0 and level 1 of the one abstract numbering; deeper levels undefined *)
LvlChoices ==
    { << Lvl(0, "decimal", <<Ph(1)>>), Lvl(1, "lowerLetter", <<Ph(1), Lit("."), Ph(2)>>) >>,
      << Lvl(0, "upperRoman", <<Ph(1), Lit(".")>>), Lvl(1, "decimal", <<Ph(1), Lit("."), Ph(2)>>) >>,
      << Lvl(0, "lowerRoman", <<Lit("("), Ph(1), Lit(")")>>), Lvl(1, "bullet", <<Ph(2)>>) >>,
      << Lvl(0, "upperLetter", <<Ph(1), Lit(")")>>), Lvl(1, "chicago", <<Ph(2), Lit(")")>>) >>,
      << [ilvl |-> 0], [ilvl |-> 1, numFmt |-> "upperRoman"] >> }

(* numId "1" is bound to the abstract numbering; numId "2" is unbound, or bound
   to an abstract numbering that does not exist *)
NumChoices ==
    { << [numId |-> "1", abstractNumId |-> "0"] >>,
      << [numId |-> "1", abstractNumId |-> "0"], [numId |-> "2", abstractNumId |-> "7"] >>,
      << [numId |-> "1", abstractNumId |-> "0"], [numId |-> "2"] >> }

NumberingParts ==
    { [present |-> FALSE] }
    \cup { [present |-> TRUE,
            abstractNums |-> << [abstractNumId |-> "0", lvls |-> lvls] >>,
            nums |-> nums] : lvls \in LvlChoices, nums \in NumChoices }

Registered(part, num_id, ilvl) ==
    /\ part.present
    /\ LET n2a == NumToAbstractDict(part.nums)
           formats == FormatsDict(part.abstractNums)
       IN  /\ num_id \in DOMAIN n2a
           /\ n2a[num_id] \in DOMAIN formats
           /\ ilvl \in DOMAIN formats[n2a[num_id]]

----
(* The tracker scenario: a tracker is built for a numbering part, then
   get_number is called with any list-id and level. *)

IdleParse ==
    /\ container = <<>>
    /\ pos = 0
    /\ elements = <<>>
    /\ uuid = 0

IdleTree ==
    /\ comments = EmptyDict
    /\ tiptap_doc = EmptyDict
    /\ tiptap = [type |-> "doc", content |-> <<>>]
    /\ styles = EmptyDict
    /\ document = [body |-> <<>>, raised |-> None]

InitTracker(part) ==
    LET x == _extract_numbering_formats(part)
    IN  /\ numbering = part
        /\ counters = EmptyDict
        /\ numbering_formats = x.formats
        /\ num_to_abstract = x.num_to_abstract
        /\ calls = <<>>

InitNumbering ==
    /\ pc = "tracker"
    /\ \E part \in NumberingParts : InitTracker(part)
    /\ IdleParse
    /\ IdleTree

Call(num_id, ilvl, before, r) ==
    [num_id |-> num_id, ilvl |-> ilvl, before |-> before, after |-> r.counters,
     raised |-> r.raised, label |-> r.label]

GetNumber ==
    /\ pc = "tracker"
    /\ Len(calls) < MaxCalls
    /\ \E num_id \in ListIds, ilvl \in CallLevels :
          LET r == get_number(counters, numbering_formats, num_to_abstract, num_id, ilvl)
          IN  /\ counters' = r.counters
              /\ calls' = Append(calls, Call(num_id, ilvl, counters, r))
    /\ UNCHANGED <<pc, numbering, numbering_formats, num_to_abstract, parseVars, treeVars>>

NextNumbering == GetNumber

SpecNumbering == InitNumbering /\ [][NextNumbering]_vars

----
(* The counting scenario: a list whose level 0 is bound to a Roman format has
   been counted up to some value; get_number is called once more for it. *)

MaxCount == 4100

RomanParts ==
    { [present |-> TRUE,
       abstractNums |-> << [abstractNumId |-> "0", lvls |-> << Lvl(0, fmt, <<Ph(1)>>) >>] >>,
       nums |-> << [numId |-> "1", abstractNumId |-> "0"] >>] :
      fmt \in {"upperRoman", "lowerRoman"} }

InitRoman ==
    /\ pc = "counted"
    /\ \E part \in RomanParts :
          LET x == _extract_numbering_formats(part)
          IN  /\ numbering = part
              /\ numbering_formats = x.formats
              /\ num_to_abstract = x.num_to_abstract
    /\ \E n \in 0 .. (MaxCount - 1) :
          counters = ("1" :> [ZeroCounters EXCEPT ![0] = n])
    /\ calls = <<>>
    /\ IdleParse
    /\ IdleTree

(* get_number("1", 0) *)
NextLabel ==
    /\ pc = "counted"
    /\ LET r == get_number(counters, numbering_formats, num_to_abstract, "1", 0)
       IN  /\ counters' = r.counters
           /\ calls' = Append(calls, Call("1", 0, counters, r))
    /\ pc' = "labelled"
    /\ UNCHANGED <<numbering, numbering_formats, num_to_abstract, parseVars, treeVars>>

NextRoman == NextLabel

SpecRoman == InitRoman /\ [][NextRoman]_vars

----
(* The conversion scenario: a container is parsed element by element
   (parse_docx), the parsed list is projected (to_tiptap) and the projected
   document is exported (create_docx_from_tiptap). *)

MaxBody == 2

R(text, bold, italic) == [text |-> text, bold |-> bold, italic |-> italic]

P(runs, style) == [tag |-> "w:p", runs |-> runs, style |-> style]

NumP(runs, style, numId, ilvl) ==
    [tag |-> "w:p", runs |-> runs, style |-> style,
     numPr |-> [numId |-> numId, ilvl |-> ilvl]]

Cell(blocks) == [blocks |-> blocks]

Row(cells) == [cells |-> cells]

Tbl(rows) == [tag |-> "w:tbl", rows |-> rows]

PPlain == P(<<R("a", "True", "None")>>, Normal)

PRuns == P(<<R("b", "None", "True"), R("", "True", "None"), R("c", "False", "False")>>, Normal)

PEmpty == P(<<>>, Normal)

PHeading == P(<<R("h", "None", "None")>>, Style("Heading", " ", "2"))

PHeading7 == P(<<R("k", "None", "None")>>, Style("Heading", " ", "7"))

PHeadingWord == P(<<R("w", "None", "None")>>, Style("Heading", " ", "Two"))

PItem == NumP(<<R("x", "None", "None")>>, Normal, "1", 0)

PSubItem == NumP(<<R("y", "True", "None")>>, Normal, "1", 1)

POtherList == NumP(<<R("z", "None", "None")>>, Normal, "2", 0)

PEmptyItem == NumP(<<>>, Normal, "1", 0)

PNoList == NumP(<<R("n", "None", "None")>>, Normal, "0", 0)

PNoIlvl ==
    [tag |-> "w:p", runs |-> <<R("m", "None", "None")>>, style |-> Normal,
     numPr |-> [numId |-> "1"]]

TSimple ==
    Tbl(<< Row(<<Cell(<<PPlain>>), Cell(<<PEmpty>>)>>),
           Row(<<Cell(<<PRuns, PHeading>>), Cell(<<PSubItem>>)>>) >>)

TItems == Tbl(<< Row(<<Cell(<<PItem, PEmpty, PItem>>)>>) >>)

TPlain ==
    Tbl(<< Row(<<Cell(<<PHeading, PPlain>>), Cell(<<PEmpty>>)>>),
           Row(<<Cell(<<PItem>>), Cell(<<PRuns, PEmpty, PHeading>>)>>) >>)

TNested ==
    Tbl(<< Row(<<Cell(<< Tbl(<< Row(<<Cell(<<PSubItem>>)>>) >>), PItem >>)>>) >>)

BodyElements ==
    { PPlain, PRuns, PEmpty, PHeading, PHeading7, PHeadingWord, PItem, PSubItem,
      POtherList, PEmptyItem, PNoList, PNoIlvl, TSimple, TItems, TPlain, TNested,
      [tag |-> "w:sectPr"] }

RECURSIVE SeqsUpTo(_, _)
(* the sequences over S of length at most n *)
SeqsUpTo(S, n) ==
    IF n = 0 THEN { <<>> }
    ELSE LET shorter == SeqsUpTo(S, n - 1)
         IN  shorter \cup { Append(q, x) : q \in shorter, x \in S }

Bodies == SeqsUpTo(BodyElements, MaxBody)

ConversionParts ==
    { [present |-> FALSE],
      [present |-> TRUE,
       abstractNums |-> << [abstractNumId |-> "0",
            lvls |-> << Lvl(0, "decimal", <<Ph(1), Lit(".")>>),
                        Lvl(1, "lowerLetter", <<Ph(1), Lit("."), Ph(2)>>) >>] >>,
       nums |-> << [numId |-> "1", abstractNumId |-> "0"] >>] }

IdleDocument == [body |-> <<>>, raised |-> None]

Init ==
    /\ pc = "parse"
    /\ \E part \in ConversionParts : InitTracker(part)
    /\ container \in Bodies
    /\ pos = 1
    /\ elements = <<>>
    /\ uuid = 0
    /\ comments = EmptyDict
    /\ tiptap_doc = EmptyDict
    /\ tiptap = [type |-> "doc", content |-> <<>>]
    /\ styles = EmptyDict
    /\ document = IdleDocument

Parsing == pc = "parse" /\ pos <= Len(container)

Here == ParseState(counters, calls, uuid, None)

(* the end of one iteration of parse_docx's loop *)
Parsed(r, keep) ==
    /\ counters' = r.st.counters
    /\ calls' = r.st.calls
    /\ uuid' = r.st.uuid
    /\ IF r.st.raised # None
       THEN pc' = "failed" /\ UNCHANGED <<pos, elements>>
       ELSE /\ pc' = pc
            /\ pos' = pos + 1
            /\ elements' = IF keep THEN Append(elements, r.val) ELSE elements
    /\ UNCHANGED <<numbering, numbering_formats, num_to_abstract, container, treeVars>>

(* line 308: a paragraph is kept when it has runs or a numbering label *)
KeepParagraph(para) == para.runs # <<>> \/ Truthy(para.numbering)

ParseBodyParagraph ==
    /\ Parsing
    /\ container[pos].tag = "w:p"
    /\ LET r == parse_paragraph(Here, container[pos])
       IN  Parsed(r, r.st.raised = None /\ KeepParagraph(r.val))

ParseBodyTable ==
    /\ Parsing
    /\ container[pos].tag = "w:tbl"
    /\ Parsed(parse_table(Here, container[pos]), TRUE)

SkipBodyElement ==
    /\ Parsing
    /\ container[pos].tag \notin {"w:p", "w:tbl"}
    /\ pos' = pos + 1
    /\ UNCHANGED <<pc, trackerVars, container, elements, uuid, treeVars>>

ParseReturn ==
    /\ pc = "parse"
    /\ pos > Len(container)
    /\ pc' = "parsed"
    /\ UNCHANGED <<trackerVars, parseVars, treeVars>>

Project ==
    /\ pc = "parsed"
    /\ tiptap' = to_tiptap(elements)
    /\ pc' = "projected"
    /\ UNCHANGED <<trackerVars, parseVars, comments, tiptap_doc, styles, document>>

Export ==
    /\ pc = "projected"
    /\ document' = create_docx_from_tiptap(tiptap)
    /\ pc' = "exported"
    /\ UNCHANGED <<trackerVars, parseVars, comments, tiptap_doc, tiptap, styles>>

Next ==
    \/ ParseBodyParagraph
    \/ ParseBodyTable
    \/ SkipBodyElement
    \/ ParseReturn
    \/ Project
    \/ Export

Spec == Init /\ [][Next]_vars

----
(* docx2tiptap/tiptap_converter.py: TipTapConverter.  Its elements are the
   dataclasses of docx2tiptap.models, which carry, besides the fields of the
   backend's dataclasses, a run's revision and comment_ids, a cell's colspan,
   rowspan, style and raw_xml, a row's raw_xml and a table's style, raw_tblPr
   and raw_tblGrid.  An optional object that is None is the empty dict. *)

(* a dict whose insertion order matters (json.dumps writes it in that order):
   the sequence of its items *)
SetItem(items, k, v) ==
    IF \E j \in 1 .. Len(items) : items[j].key = k
    THEN [j \in 1 .. Len(items) |->
            IF items[j].key = k THEN [key |-> k, value |-> v] ELSE items[j]]
    ELSE Append(items, [key |-> k, value |-> v])

RECURSIVE SetItems(_, _)
SetItems(items, new) ==
    IF new = <<>> THEN items
    ELSE SetItems(SetItem(items, Head(new).key, Head(new).value), Tail(new))

(* del d[k] for every k of keys that d has *)
Without(d, keys) == [k \in DOMAIN d \ keys |-> d[k]]

(* a comment mark that always has an author *)
CommentAttrs_Author(comment_id, registry) ==
    LET known == IF comment_id \in DOMAIN registry THEN registry[comment_id] ELSE EmptyDict
    IN  [commentId |-> comment_id, author |-> Get(known, "author", None)]

(* lines 114-123: the attrs of a comment mark *)
CommentAttrs(comment_id, registry) ==
    LET known == IF comment_id \in DOMAIN registry THEN registry[comment_id] ELSE EmptyDict
        copied == DOMAIN known \cap {"author", "date", "text"}
    IN  [k \in {"commentId"} \cup copied |->
            IF k = "commentId" THEN comment_id ELSE known[k]]

_build_marks(run, registry) ==
    LET rev == run.revision
        rev_type == Get(rev, "type", None)
    IN  BoldItalicMarks(run.bold, run.italic)
        \o (IF rev # EmptyDict /\ rev_type \in {"insertion", "deletion"}
            THEN << [type |-> rev_type,
                     attrs |-> [id |-> Get(rev, "id", None),
                                author |-> Get(rev, "author", None),
                                date |-> Get(rev, "date", None)]] >>
            ELSE <<>>)
        \o [j \in 1 .. Len(run.comment_ids) |->
                [type |-> "comment", attrs |-> CommentAttrs(run.comment_ids[j], registry)]]

_text_run_to_node(run, registry) ==
    LET marks == _build_marks(run, registry)
    IN  IF marks # <<>>
        THEN [type |-> "text", text |-> run.text, marks |-> marks]
        ELSE [type |-> "text", text |-> run.text]

_paragraph_to_node(para, registry) ==
    LET kept == SelectSeq(para.runs, LAMBDA run : run.text # "")
        nodes == [j \in 1 .. Len(kept) |-> _text_run_to_node(kept[j], registry)]
        content == IF Truthy(para.numbering) /\ nodes # <<>>
                   THEN << [type |-> "text", text |-> para.numbering \o " "] >> \o nodes
                   ELSE nodes
    IN  IF para.level > 0
        THEN [type |-> "heading",
              attrs |-> [level |-> IF para.level < 6 THEN para.level ELSE 6],
              content |-> content]
        ELSE [type |-> "paragraph", content |-> content]

(* lines 268-295; a field of the style that is None is absent *)
_cell_style_to_attrs(style) ==
    LET sides == { side \in {"top", "bottom", "left", "right"} :
                      side \in DOMAIN Get(style, "borders", EmptyDict) }
        keys == { k \in {"width", "background_color", "vertical_align", "text_align"} :
                    k \in DOMAIN style }
               \cup (IF sides # {} THEN {"borders"} ELSE {})
        name == [width |-> "colwidth", background_color |-> "backgroundColor",
                 vertical_align |-> "verticalAlign", text_align |-> "textAlign",
                 borders |-> "borders"]
        value(k) == IF k = "width" THEN <<style.width>>
                    ELSE IF k = "background_color" THEN "#" \o style.background_color
                    ELSE IF k = "borders"
                    THEN [side \in sides |->
                            [style |-> style.borders[side].style,
                             width |-> style.borders[side].width,
                             color |-> style.borders[side].color]]
                    ELSE style[k]
    IN  [a \in { name[k] : k \in keys } |->
            value(CHOOSE k \in keys : name[k] = a)]

(* lines 209-226 *)
_convert_cell_content(content, registry) ==
    Flatten([k \in 1 .. Len(content) |->
                IF IsA(content[k], "Paragraph")
                THEN <<_paragraph_to_node(content[k], registry)>>
                ELSE IF IsA(content[k], "Table") THEN <<NestedTablePlaceholder>>
                ELSE <<>>])

(* lines 164-181: the attrs of a cell node *)
CellAttrs(cell) ==
    LET spans == [k \in { k \in {"colspan", "rowspan"} : cell[k] > 1 } |-> cell[k]]
        styled == IF cell.style # EmptyDict
                  THEN _cell_style_to_attrs(cell.style) @@ spans
                  ELSE spans
    IN  IF Truthy(cell.raw_xml) THEN Put(styled, "rawXml", cell.raw_xml) ELSE styled

(* lines 191-205: the attrs of a table node *)
TableAttrs(table) ==
    LET style == table.style
        from_style ==
            [k \in { k \in {"colwidths", "alignment", "styleName"} :
                       /\ style # EmptyDict
                       /\ \/ k = "colwidths" /\ style.column_widths # <<>>
                          \/ k = "alignment" /\ Truthy(style.alignment)
                          \/ k = "styleName" /\ Truthy(style.style_name) } |->
                IF k = "colwidths" THEN style.column_widths
                ELSE IF k = "alignment" THEN style.alignment
                ELSE style.style_name]
        with_id == Put(from_style, "id", table.id)
        with_pr == IF Truthy(table.raw_tblPr)
                   THEN Put(with_id, "rawTblPr", table.raw_tblPr) ELSE with_id
    IN  IF Truthy(table.raw_tblGrid)
        THEN Put(with_pr, "rawTblGrid", table.raw_tblGrid) ELSE with_pr

_table_to_node(table, registry) ==
    [type |-> "table",
     attrs |-> TableAttrs(table),
     content |-> [r \in 1 .. Len(table.rows) |->
        LET row == table.rows[r]
            cells == [c \in 1 .. Len(row.cells) |->
                LET cell_content == _convert_cell_content(row.cells[c].content, registry)
                    cell_node == [type |-> CellType(r - 1),
                                  content |-> IF cell_content = <<>>
                                              THEN <<EmptyParagraphNode>>
                                              ELSE cell_content]
                    attrs == CellAttrs(row.cells[c])
                IN  IF attrs # EmptyDict THEN Put(cell_node, "attrs", attrs) ELSE cell_node]
        IN  IF Truthy(row.raw_xml)
            THEN [type |-> "tableRow", content |-> cells, attrs |-> [rawXml |-> row.raw_xml]]
            ELSE [type |-> "tableRow", content |-> cells]]]

RECURSIVE _section_to_node(_, _)
_section_to_node(section, registry) ==
    LET heading == IF Truthy(section.title)
                   THEN << [type |-> "heading",
                            attrs |-> [level |-> section.level],
                            content |-> << [type |-> "text", text |-> section.title] >>] >>
                   ELSE <<>>
        items == section.content
        own == Flatten([k \in 1 .. Len(items) |->
                    IF IsA(items[k], "Paragraph") THEN <<_paragraph_to_node(items[k], registry)>>
                    ELSE IF IsA(items[k], "Table") THEN <<_table_to_node(items[k], registry)>>
                    ELSE <<>>])
        children == [k \in 1 .. Len(section.children) |->
                        _section_to_node(section.children[k], registry)]
        content == heading \o own \o children
    IN  [type |-> "section",
         attrs |-> [id |-> section.id, originalRef |-> section.original_ref,
                    level |-> section.level],
         content |-> IF content # <<>> THEN content ELSE <<EmptyParagraphNode>>]

(* a table node the raw-style passes look into: one with a truthy attrs.id *)
HasTableId(node) ==
    /\ Get(node, "type", None) = "table"
    /\ Truthy(Get(Get(node, "attrs", EmptyDict), "id", None))

(* node.attrs without the keys, a node without attrs staying without *)
PopAttrs(node, keys) ==
    IF "attrs" \in DOMAIN node
    THEN [node EXCEPT !.attrs = Without(node.attrs, keys)]
    ELSE node

(* a row of the table, with the keys the pass pops removed from it and its cells *)
PopRow(row, row_keys, cell_keys) ==
    IF "content" \notin DOMAIN row THEN PopAttrs(row, row_keys)
    ELSE [PopAttrs(row, row_keys) EXCEPT !.content =
            [c \in 1 .. Len(row.content) |-> PopAttrs(row.content[c], cell_keys)]]

(* a table node, with the keys the pass pops removed from it, its rows and cells *)
PopTable(node, table_keys, row_keys, cell_keys) ==
    IF "content" \notin DOMAIN node THEN PopAttrs(node, table_keys)
    ELSE [PopAttrs(node, table_keys) EXCEPT !.content =
            [r \in 1 .. Len(node.content) |-> PopRow(node.content[r], row_keys, cell_keys)]]

Item(k, v) == [key |-> k, value |-> v]

(* lines 314-332: the entries one table adds to styles, in the order written *)
TableItems(node) ==
    LET attrs == node.attrs
        prefix == "table:" \o attrs.id
        rows == Get(node, "content", <<>>)
    IN  (IF "rawTblPr" \in DOMAIN attrs
         THEN <<Item(prefix \o ":tblPr", attrs.rawTblPr)>> ELSE <<>>)
        \o (IF "rawTblGrid" \in DOMAIN attrs
            THEN <<Item(prefix \o ":tblGrid", attrs.rawTblGrid)>> ELSE <<>>)
        \o Flatten([r \in 1 .. Len(rows) |->
              LET row_key == prefix \o ":row:" \o ToString(r - 1)
                  row_attrs == Get(rows[r], "attrs", EmptyDict)
                  cells == Get(rows[r], "content", <<>>)
              IN  (IF "rawXml" \in DOMAIN row_attrs
                   THEN <<Item(row_key, row_attrs.rawXml)>> ELSE <<>>)
                  \o Flatten([c \in 1 .. Len(cells) |->
                        LET cell_attrs == Get(cells[c], "attrs", EmptyDict)
                        IN  IF "rawXml" \in DOMAIN cell_attrs
                            THEN <<Item(row_key \o ":cell:" \o ToString(c - 1),
                                        cell_attrs.rawXml)>>
                            ELSE <<>>])])

(* One pass of process_node does two things to the tree, which do not depend
   on each other (a table's own pops touch the attrs of the table, its rows
   and its cells, never those of a table nested in a cell): it leaves the
   nodes without the popped keys, and it writes the styles in visiting order,
   a table before the tables below it. *)

RECURSIVE PopNode(_)
(* lines 308-338: the node as process_node leaves it *)
PopNode(node) ==
    LET own == IF HasTableId(node)
               THEN PopTable(node, {"rawTblPr", "rawTblGrid"}, {"rawXml"},
                             {"rawXml", "colwidth"})
               ELSE node
    IN  IF "content" \notin DOMAIN own THEN own
        ELSE [own EXCEPT !.content = [k \in 1 .. Len(own.content) |-> PopNode(own.content[k])]]

RECURSIVE TablesBelow(_)
(* the table nodes with an id at and below the node, in visiting order *)
TablesBelow(node) ==
    (IF HasTableId(node) THEN <<node>> ELSE <<>>)
    \o Flatten([k \in 1 .. Len(Get(node, "content", <<>>)) |-> TablesBelow(node.content[k])])

RECURSIVE StoreTables(_, _)
(* styles[key] = value for the entries of the tables, in order *)
StoreTables(items, tables) ==
    IF tables = <<>> THEN items
    ELSE StoreTables(SetItems(items, TableItems(Head(tables))), Tail(tables))

(* json.dumps of the stored styles, a dict of str to str: the text as its
   tokens, the items in insertion order, every key and value a string literal *)
Punct(c) == [tok |-> c]

StrLit(s) == [tok |-> "string", text |-> s]

dumps(items) ==
    <<Punct("{")>>
    \o Flatten([j \in 1 .. Len(items) |->
            (IF j > 1 THEN <<Punct(",")>> ELSE <<>>)
            \o <<StrLit(items[j].key), Punct(":"), StrLit(items[j].value)>>])
    \o <<Punct("}")>>

(* a conversion that leaves the raw fragments on the nodes *)
_extract_and_store_raw_styles_Keep(content) ==
    [styles |-> StoreTables(<<>>, Flatten([k \in 1 .. Len(content) |-> TablesBelow(content[k])])),
     done |-> content]

(* a conversion that puts the storage node in front *)
WithStorageNode_First(raw_styles) ==
    [type |-> "doc",
     content |-> IF raw_styles.styles # <<>>
                 THEN << [type |-> "rawStylesStorage",
                          attrs |-> [data |-> dumps(raw_styles.styles)]] >>
                      \o raw_styles.done
                 ELSE raw_styles.done]

(* lines 297-343: the styles, and the content as the call leaves it *)
_extract_and_store_raw_styles(content) ==
    [styles |-> StoreTables(<<>>, Flatten([k \in 1 .. Len(content) |-> TablesBelow(content[k])])),
     done |-> [k \in 1 .. Len(content) |-> PopNode(content[k])]]

(* lines 46-52 *)
ConvertElements(elems, registry) ==
    Flatten([k \in 1 .. Len(elems) |->
                IF IsA(elems[k], "Paragraph") THEN <<_paragraph_to_node(elems[k], registry)>>
                ELSE IF IsA(elems[k], "Table") THEN <<_table_to_node(elems[k], registry)>>
                ELSE IF IsA(elems[k], "Section") THEN <<_section_to_node(elems[k], registry)>>
                ELSE <<>>])

(* lines 55-56 *)
EnsureContent(nodes) == IF nodes = <<>> THEN <<EmptyParagraphNode>> ELSE nodes

(* lines 59-68 *)
WithStorageNode(raw_styles) ==
    [type |-> "doc",
     content |-> IF raw_styles.styles # <<>>
                 THEN Append(raw_styles.done,
                             [type |-> "rawStylesStorage",
                              attrs |-> [data |-> dumps(raw_styles.styles)]])
                 ELSE raw_styles.done]

convert(elems, registry) ==
    WithStorageNode(
        _extract_and_store_raw_styles(EnsureContent(ConvertElements(elems, registry))))

----
(* backend/main.py: the raw styles kept per document on upload and put back
   before export.  styles maps a table id to [rawTblPr, rawTblGrid, rows],
   rows maps a row index to [rawXml, cells] and cells maps a cell index to
   [rawXml], every key present only when there is something to keep. *)

(* lines 82-88: the entries of the cells of one row *)
CellStyles(row) ==
    LET cells == Get(row, "content", <<>>)
    IN  [c \in { c \in 0 .. (Len(cells) - 1) :
                    "rawXml" \in DOMAIN Get(cells[c + 1], "attrs", EmptyDict) } |->
            [rawXml |-> cells[c + 1].attrs.rawXml]]

(* lines 74-98: the entry of one row; empty when nothing is kept for it *)
RowStyle(row) ==
    LET row_attrs == Get(row, "attrs", EmptyDict)
        own == IF "rawXml" \in DOMAIN row_attrs THEN [rawXml |-> row_attrs.rawXml]
               ELSE EmptyDict
    IN  IF CellStyles(row) # EmptyDict THEN Put(own, "cells", CellStyles(row)) ELSE own

(* lines 64-101: the entry of one table *)
TableStyles(node) ==
    LET attrs == node.attrs
        rows == Get(node, "content", <<>>)
        own == [k \in DOMAIN attrs \cap {"rawTblPr", "rawTblGrid"} |-> attrs[k]]
        row_styles == [r \in { r \in 0 .. (Len(rows) - 1) : RowStyle(rows[r + 1]) # EmptyDict } |->
                          RowStyle(rows[r + 1])]
    IN  IF row_styles # EmptyDict THEN Put(own, "rows", row_styles) ELSE own

(* lines 103-104: styles[table_id] = table_styles, when there is any *)
KeepTableStyles(styles_, node) ==
    IF TableStyles(node) # EmptyDict
    THEN Put(styles_, node.attrs.id, TableStyles(node))
    ELSE styles_

RECURSIVE KeepTables(_, _)
(* lines 60-109: the styles after process_node has visited the tables in order *)
KeepTables(styles_, tables) ==
    IF tables = <<>> THEN styles_
    ELSE KeepTables(KeepTableStyles(styles_, Head(tables)), Tail(tables))

(* the styles returned and the document as the call leaves it; the pass visits
   and pops as the pass of _extract_and_store_raw_styles does *)
extract_raw_styles(tiptap_doc_) ==
    [styles |-> KeepTables(EmptyDict, TablesBelow(tiptap_doc_)),
     doc |-> PopNode(tiptap_doc_)]

(* node.attrs[k] = v, the attrs being created when the node has none *)
SetAttr(node, k, v) ==
    IF "attrs" \in DOMAIN node
    THEN [node EXCEPT !.attrs = Put(node.attrs, k, v)]
    ELSE Put(node, "attrs", (k :> v))

RestoreCell_Skip(cell, cell_styles, cell_idx) == cell

(* lines 146-153: a cell of a row that has an entry *)
RestoreCell(cell, cell_styles, cell_idx) ==
    IF cell_idx \in DOMAIN cell_styles /\ "rawXml" \in DOMAIN cell_styles[cell_idx]
    THEN SetAttr(cell, "rawXml", cell_styles[cell_idx].rawXml)
    ELSE cell

(* a restoration that gives a row the entry of the row after it *)
RestoreRow_Next(row, row_styles, row_idx) ==
    IF (row_idx + 1) \notin DOMAIN row_styles THEN row
    ELSE LET row_style == row_styles[row_idx + 1]
             cell_styles == Get(row_style, "cells", EmptyDict)
         IN  IF "content" \notin DOMAIN row THEN row
             ELSE [row EXCEPT !.content =
                     [c \in 1 .. Len(row.content) |->
                         RestoreCell(row.content[c], cell_styles, c - 1)]]

(* lines 137-153: a row of a table that has an entry *)
RestoreRow(row, row_styles, row_idx) ==
    IF row_idx \notin DOMAIN row_styles THEN row
    ELSE LET row_style == row_styles[row_idx]
             own == IF "rawXml" \in DOMAIN row_style
                    THEN SetAttr(row, "rawXml", row_style.rawXml) ELSE row
             cell_styles == Get(row_style, "cells", EmptyDict)
         IN  IF "content" \notin DOMAIN own THEN own
             ELSE [own EXCEPT !.content =
                     [c \in 1 .. Len(row.content) |->
                         RestoreCell(row.content[c], cell_styles, c - 1)]]

(* lines 127-153: a table whose id has an entry in styles *)
RestoreTable(node, table_styles) ==
    LET with_pr == IF "rawTblPr" \in DOMAIN table_styles
                   THEN SetAttr(node, "rawTblPr", table_styles.rawTblPr) ELSE node
        with_grid == IF "rawTblGrid" \in DOMAIN table_styles
                     THEN SetAttr(with_pr, "rawTblGrid", table_styles.rawTblGrid)
                     ELSE with_pr
        row_styles == Get(table_styles, "rows", EmptyDict)
    IN  IF "content" \notin DOMAIN with_grid THEN with_grid
        ELSE [with_grid EXCEPT !.content =
                [r \in 1 .. Len(node.content) |->
                    RestoreRow(node.content[r], row_styles, r - 1)]]

(* line 151 reads cell_styles[cell_idx]["rawXml"]: an entry without it is a KeyError *)
RECURSIVE RestoreRaises(_, _)
RestoreRaises(node, styles_) ==
    \/ /\ HasTableId(node)
       /\ node.attrs.id \in DOMAIN styles_
       /\ LET row_styles == Get(styles_[node.attrs.id], "rows", EmptyDict)
              rows == Get(node, "content", <<>>)
          IN  \E r \in 1 .. Len(rows) :
                /\ (r - 1) \in DOMAIN row_styles
                /\ LET cell_styles == Get(row_styles[r - 1], "cells", EmptyDict)
                   IN  \E c \in 1 .. Len(Get(rows[r], "content", <<>>)) :
                          /\ (c - 1) \in DOMAIN cell_styles
                          /\ "rawXml" \notin DOMAIN cell_styles[c - 1]
    \/ \E k \in 1 .. Len(Get(node, "content", <<>>)) : RestoreRaises(node.content[k], styles_)

RECURSIVE RestoreNode(_, _)
(* lines 126-158: process_node of restore_raw_styles *)
RestoreNode(node, styles_) ==
    LET restored == IF HasTableId(node) /\ node.attrs.id \in DOMAIN styles_
                    THEN RestoreTable(node, styles_[node.attrs.id])
                    ELSE node
    IN  IF "content" \notin DOMAIN restored THEN restored
        ELSE [restored EXCEPT !.content =
                [k \in 1 .. Len(restored.content) |->
                    RestoreNode(restored.content[k], styles_)]]

(* a deep copy of the document with the styles put back *)
restore_raw_styles(tiptap_doc_, styles_) ==
    [doc |-> RestoreNode(tiptap_doc_, styles_),
     raised |-> IF RestoreRaises(tiptap_doc_, styles_) THEN "KeyError" ELSE None]

----
(* The projection scenario: a list of parsed elements, as the parser or the
   section builder hands it over, goes through one of the projections:
   the backend's to_tiptap on the dataclasses, the backend's to_tiptap on
   elements_to_dict of them, or docx2tiptap's TipTapConverter.convert; the
   projected document is then exported. *)

MaxElements == 2

TextRun(text, bold, italic, revision, comment_ids) ==
    [cls |-> "TextRun", text |-> text, bold |-> bold, italic |-> italic,
     revision |-> revision, comment_ids |-> comment_ids]

Plain(text) == TextRun(text, FALSE, FALSE, EmptyDict, <<>>)

TableCell(content, colspan, style, raw_xml) ==
    [cls |-> "TableCell", content |-> content, colspan |-> colspan, rowspan |-> 1,
     style |-> style, raw_xml |-> raw_xml]

TableRow(cells, raw_xml) == [cls |-> "TableRow", cells |-> cells, raw_xml |-> raw_xml]

StyledTable(id, rows, style, raw_tblPr, raw_tblGrid) ==
    [cls |-> "Table", id |-> id, rows |-> rows, style |-> style,
     raw_tblPr |-> raw_tblPr, raw_tblGrid |-> raw_tblGrid]

Section(id, level, title, content, children) ==
    [cls |-> "Section", id |-> id, original_ref |-> None, level |-> level,
     title |-> title, content |-> content, children |-> children]

EPlain == Paragraph(<<TextRun("a", TRUE, FALSE, EmptyDict, <<>>)>>, "Normal", None, 0)

ELabel == Paragraph(<<Plain("x"), TextRun("y", FALSE, TRUE, EmptyDict, <<>>)>>,
                    "List Paragraph", "1.", 0)

ELabelOnly == Paragraph(<<>>, "List Paragraph", "2.", 0)

ELabelBlank == Paragraph(<<Plain("")>>, "List Paragraph", "3.", 0)

EHeading == Paragraph(<<Plain("h")>>, "Heading 3", None, 3)

EHeading7 == Paragraph(<<Plain("k")>>, "Heading 7", "1.1", 7)

ERevised ==
    Paragraph(<< TextRun("r", FALSE, FALSE,
                         [type |-> "insertion", id |-> "7", author |-> "ann"],
                         <<"c1", "c9">>),
                 TextRun("s", TRUE, FALSE, [type |-> "moved"], <<>>) >>,
              "Normal", None, 0)

EInner == StyledTable("in", << TableRow(<<TableCell(<<ELabel>>, 1, EmptyDict, None)>>, None) >>,
                      EmptyDict, "<w:tblPr>in", None)

ETable ==
    StyledTable("t1",
        << TableRow(<< TableCell(<<EPlain>>, 2,
                                 [width |-> 1440, background_color |-> "FF0000",
                                  borders |-> [top |-> [style |-> "single", width |-> 4,
                                                        color |-> "000000"]]],
                                 "<w:tcPr>00"),
                       TableCell(<<>>, 1, EmptyDict, None) >>, "<w:trPr>0"),
           TableRow(<< TableCell(<<EInner, ELabelOnly>>, 1, [text_align |-> "center"], None),
                       TableCell(<<EHeading7>>, 1, EmptyDict, "<w:tcPr>11") >>, None) >>,
        [column_widths |-> <<1440, 720>>, alignment |-> "center", style_name |-> None],
        "<w:tblPr>t1", "<w:tblGrid>t1")

EBareTable ==
    StyledTable("t2", << TableRow(<<TableCell(<<EHeading>>, 1, EmptyDict, None)>>, None) >>,
                EmptyDict, None, None)

ESection == Section("s1", 1, "One", <<EPlain, EBareTable>>, <<>>)

ESection7 == Section("s7", 7, "Seven", <<>>, <<Section("s8", 8, "", <<ELabel>>, <<>>)>>)

EUntitled == Section("s0", 2, None, <<>>, <<>>)

(* three rows of unequal length; the first cell as the parser leaves a cell
   without content: one paragraph with one run without text *)
ERagged ==
    StyledTable("t3",
        << TableRow(<<TableCell(<<Paragraph(<<Plain("")>>, None, None, 0)>>, 1, EmptyDict, None)>>,
                    None),
           TableRow(<< TableCell(<<>>, 1, EmptyDict, None),
                       TableCell(<<EPlain>>, 1, EmptyDict, None) >>, None),
           TableRow(<<TableCell(<<EHeading>>, 1, EmptyDict, None)>>, None) >>,
        EmptyDict, None, None)

ProjectElementsSet ==
    { EPlain, ELabel, ELabelOnly, ELabelBlank, EHeading, EHeading7, ERevised,
      ETable, EBareTable, ERagged, ESection, ESection7, EUntitled }

Registries ==
    { EmptyDict,
      [c1 |-> [author |-> "bob", date |-> "2024-01-01", text |-> "note"]],
      [c1 |-> [author |-> "bob"]] }

InitProject ==
    /\ pc = "elements"
    /\ InitTracker([present |-> FALSE])
    /\ container = <<>>
    /\ pos = 0
    /\ elements \in SeqsUpTo(ProjectElementsSet, MaxElements)
    /\ uuid = 0
    /\ comments \in Registries
    /\ tiptap_doc = EmptyDict
    /\ tiptap = [type |-> "doc", content |-> <<>>]
    /\ styles = EmptyDict
    /\ document = IdleDocument

Projected(path, doc) ==
    /\ pc = "elements"
    /\ pc' = path
    /\ tiptap' = doc
    /\ UNCHANGED <<trackerVars, parseVars, comments, tiptap_doc, styles, document>>

(* backend: to_tiptap(elements) *)
ProjectElements == Projected("to_tiptap", to_tiptap(elements))

(* backend: to_tiptap(elements_to_dict(elements)) *)
ProjectDicts == Projected("to_tiptap(dict)", to_tiptap(elements_to_dict(elements)))

(* docx2tiptap: to_tiptap(elements, comments) *)
Convert == Projected("convert", convert(elements, comments))

(* create_docx_from_tiptap on the projected document *)
ExportProjected ==
    /\ pc \in {"to_tiptap", "to_tiptap(dict)", "convert"}
    /\ document' = create_docx_from_tiptap(tiptap)
    /\ pc' = "exported " \o pc
    /\ UNCHANGED <<trackerVars, parseVars, comments, tiptap_doc, tiptap, styles>>

NextProject ==
    \/ ProjectElements
    \/ ProjectDicts
    \/ Convert
    \/ ExportProjected

SpecProject == InitProject /\ [][NextProject]_vars

----
(* The raw-style scenario of backend/main.py: on upload the raw styles of the
   projected document are extracted and kept, the client gets the document
   without them; on export they are put back on the document the client
   sends (the one it got, or that one after an edit) and the exporter runs. *)

MaxNodes == 2

Text(text) == [type |-> "text", text |-> text]

Para(text) == [type |-> "paragraph", content |-> <<Text(text)>>]

CellNode(type, content) == [type |-> type, content |-> content]

RawCellNode(type, content, attrs) == [type |-> type, content |-> content, attrs |-> attrs]

RowNode(cells) == [type |-> "tableRow", content |-> cells]

RawRowNode(cells, raw_xml) ==
    [type |-> "tableRow", content |-> cells, attrs |-> [rawXml |-> raw_xml]]

TableNode(attrs, rows) == [type |-> "table", attrs |-> attrs, content |-> rows]

(* a table with a fragment at every level *)
NFull ==
    TableNode([id |-> "t1", rawTblPr |-> "<w:tblPr>1", rawTblGrid |-> "<w:tblGrid>1"],
        << RawRowNode(<< RawCellNode("tableHeader", <<Para("a")>>,
                                     [rawXml |-> "<w:tcPr>00", colwidth |-> <<1440>>]),
                         CellNode("tableHeader", <<Para("b")>>) >>, "<w:trPr>0"),
           RowNode(<< CellNode("tableCell", <<Para("c")>>),
                      RawCellNode("tableCell", <<Para("d")>>, [rawXml |-> "<w:tcPr>11"]) >>) >>)

(* only table properties *)
NProps ==
    TableNode([id |-> "t2", rawTblPr |-> "<w:tblPr>2", styleName |-> "Light"],
        << RowNode(<<CellNode("tableHeader", <<Para("e")>>)>>) >>)

(* only a cell fragment, in the second row *)
NCellOnly ==
    TableNode([id |-> "t3"],
        << RowNode(<<CellNode("tableHeader", <<Para("f")>>)>>),
           RowNode(<<RawCellNode("tableCell", <<Para("g")>>, [rawXml |-> "<w:tcPr>10"])>>) >>)

(* the id of NFull, other fragments *)
NSameId ==
    TableNode([id |-> "t1", rawTblPr |-> "<w:tblPr>1b"],
        << RawRowNode(<<CellNode("tableHeader", <<Para("h")>>)>>, "<w:trPr>0b") >>)

(* no id: the passes leave the table alone *)
NNoId ==
    TableNode([rawTblPr |-> "<w:tblPr>0"],
        << RawRowNode(<<CellNode("tableHeader", <<Para("i")>>)>>, "<w:trPr>00") >>)

NEmptyId ==
    TableNode([id |-> "", rawTblGrid |-> "<w:tblGrid>0"],
        << RowNode(<<CellNode("tableHeader", <<Para("j")>>)>>) >>)

(* no fragment at all *)
NBare == TableNode([id |-> "t4"], << RowNode(<<CellNode("tableHeader", <<Para("k")>>)>>) >>)

(* a table in a cell of a table *)
NOuter ==
    TableNode([id |-> "t5", rawTblGrid |-> "<w:tblGrid>5"],
        << RowNode(<< RawCellNode("tableHeader", <<Para("l"), NProps>>,
                                  [rawXml |-> "<w:tcPr>5"]) >>) >>)

(* a table under a section, an empty fragment *)
NSection ==
    [type |-> "section", attrs |-> [id |-> "s1", originalRef |-> None, level |-> 1],
     content |-> << TableNode([id |-> "t6", rawTblPr |-> ""],
                        << RowNode(<<CellNode("tableHeader", <<Para("m")>>)>>) >>) >>]

(* a node of a type the exporter does not know *)
NRule == [type |-> "horizontalRule"]

NHeading == [type |-> "heading", attrs |-> [level |-> 2], content |-> <<Text("q")>>]

(* rows of one, three and no cells *)
NRagged ==
    TableNode([id |-> "t7"],
        << RowNode(<<CellNode("tableHeader", <<Para("r")>>)>>),
           RowNode(<< CellNode("tableCell", <<Para("s"), Para("t")>>),
                      CellNode("tableCell", <<NHeading>>),
                      CellNode("tableCell", <<Para("u")>>) >>),
           RowNode(<<>>) >>)

(* a cell that starts with a table and goes on with a section *)
NFirst ==
    TableNode([id |-> "t8"],
        << RowNode(<<CellNode("tableHeader", <<NBare, NSection>>)>>) >>)

(* a cell that starts with an empty paragraph, a cell with one in the middle *)
NGap ==
    TableNode([id |-> "t10"],
        << RowNode(<< CellNode("tableHeader", <<EmptyParagraphNode, Para("v")>>),
                      CellNode("tableHeader", <<Para("w"), EmptyParagraphNode, NHeading>>) >>) >>)

VaultNodes ==
    { Para("p"), NFull, NProps, NCellOnly, NSameId, NNoId, NEmptyId, NBare, NOuter, NSection,
      NRule, NHeading, NRagged, NFirst, NGap }

VaultTrees == { [type |-> "doc", content |-> c] : c \in SeqsUpTo(VaultNodes, MaxNodes) }

InitVault ==
    /\ pc = "upload"
    /\ InitTracker([present |-> FALSE])
    /\ IdleParse
    /\ comments = EmptyDict
    /\ tiptap_doc \in VaultTrees
    /\ tiptap = tiptap_doc
    /\ styles = EmptyDict
    /\ document = IdleDocument

(* upload_document: styles = extract_raw_styles(tiptap_doc); the document kept
   and returned is the stripped one *)
ExtractRawStyles ==
    /\ pc = "upload"
    /\ styles' = extract_raw_styles(tiptap).styles
    /\ tiptap' = extract_raw_styles(tiptap).doc
    /\ pc' = "stored"
    /\ UNCHANGED <<trackerVars, parseVars, comments, tiptap_doc, document>>

(* a table the client adds: the vault has no entry for its id *)
NAdded ==
    TableNode([id |-> "t9", styleName |-> "Plain"],
        << RowNode(<<CellNode("tableHeader", <<Para("n")>>)>>) >>)

RemoveAt(seq, k) == SubSeq(seq, 1, k - 1) \o SubSeq(seq, k + 1, Len(seq))

DropLast(seq) == SubSeq(seq, 1, Len(seq) - 1)

(* the top-level nodes of the document that have children *)
WithChildren(doc) ==
    { k \in 1 .. Len(doc.content) : Get(doc.content[k], "content", <<>>) # <<>> }

(* the documents the editor can send back after one edit of the one it got:
   a top-level node deleted, the last row of a table deleted, the last cell of
   a row deleted, a table added *)
Edits(doc) ==
    { [doc EXCEPT !.content = RemoveAt(doc.content, k)] : k \in 1 .. Len(doc.content) }
    \cup { [doc EXCEPT !.content[k].content = DropLast(doc.content[k].content)] :
            k \in { k \in WithChildren(doc) : doc.content[k].type = "table" } }
    \cup { [doc EXCEPT !.content[k].content[1].content =
                            DropLast(doc.content[k].content[1].content)] :
            k \in { k \in WithChildren(doc) : doc.content[k].type = "table" } }
    \cup { [doc EXCEPT !.content = Append(doc.content, NAdded)] }

(* ExportRequest.tiptap: the client sends an edited document *)
EditDocument ==
    /\ pc = "stored"
    /\ tiptap' \in Edits(tiptap)
    /\ pc' = "edited"
    /\ UNCHANGED <<trackerVars, parseVars, comments, tiptap_doc, styles, document>>

(* export_document: tiptap_with_styles = restore_raw_styles(request.tiptap, styles) *)
RestoreRawStyles ==
    /\ pc \in {"stored", "edited"}
    /\ IF restore_raw_styles(tiptap, styles).raised # None
       THEN pc' = "failed" /\ tiptap' = tiptap
       ELSE /\ pc' = (IF pc = "stored" THEN "restored" ELSE "merged")
            /\ tiptap' = restore_raw_styles(tiptap, styles).doc
    /\ UNCHANGED <<trackerVars, parseVars, comments, tiptap_doc, styles, document>>

(* export_document: create_docx_from_tiptap(tiptap_with_styles, ...) *)
ExportRestored ==
    /\ pc \in {"restored", "merged"}
    /\ document' = create_docx_from_tiptap(tiptap)
    /\ pc' = (IF pc = "restored" THEN "exported" ELSE "exported edited")
    /\ UNCHANGED <<trackerVars, parseVars, comments, tiptap_doc, tiptap, styles>>

NextVault ==
    \/ ExtractRawStyles
    \/ EditDocument
    \/ RestoreRawStyles
    \/ ExportRestored

SpecVault == InitVault /\ [][NextVault]_vars

----
(* Properties of the parse *)

RECURSIVE NumberedInOrder(_)
(* the numbering references of a sequence of blocks, in document order:
   a nested table's paragraphs at the table's own position *)
NumberedInOrder(blocks) ==
    IF blocks = <<>> THEN <<>>
    ELSE LET b == Head(blocks)
             here ==
                IF b.tag = "w:p"
                THEN IF /\ "numPr" \in DOMAIN b
                        /\ DOMAIN b.numPr = {"numId", "ilvl"}
                        /\ b.numPr.numId # "0"
                     THEN << <<b.numPr.numId, b.numPr.ilvl>> >>
                     ELSE <<>>
                ELSE IF b.tag = "w:tbl"
                THEN Flatten([r \in 1 .. Len(b.rows) |->
                        Flatten([c \in 1 .. Len(b.rows[r].cells) |->
                            NumberedInOrder(b.rows[r].cells[c].blocks)])])
                ELSE <<>>
         IN  here \o NumberedInOrder(Tail(blocks))

CallTrace == [k \in 1 .. Len(calls) |-> <<calls[k].num_id, calls[k].ilvl>>]

(* C3 as stated: during a parse pass get_number is called exactly once for
   every paragraph with a numbering reference whose list-id is not "0", never
   for list-id "0", and in the document order of those paragraphs, also in
   table cells and in tables nested in cells. *)
C3_CallsInDocumentOrder ==
    (pc \in {"parse", "parsed"} /\ numbering.present) =>
        CallTrace = NumberedInOrder(SubSeq(container, 1, pos - 1))

----
(* Properties of the tracker scenario *)

CallIdx == 1 .. Len(calls)

(* the counters of a list before its first use *)
CounterRow(cs, num_id) == IF num_id \in DOMAIN cs THEN cs[num_id] ELSE [i \in Levels |-> 0]

(* the list-id is bound, in the numbering part, to an abstract numbering that exists *)
HasFormat(num_id) ==
    /\ numbering.present
    /\ \E n \in 1 .. Len(numbering.nums) :
          /\ numbering.nums[n].numId = num_id
          /\ "abstractNumId" \in DOMAIN numbering.nums[n]
          /\ \E a \in 1 .. Len(numbering.abstractNums) :
                numbering.abstractNums[a].abstractNumId = numbering.nums[n].abstractNumId

(* the lvl element of the list at a level, when the numbering part has one *)
LvlsAt(num_id, level) ==
    { lvl \in UNION { { numbering.abstractNums[a].lvls[j] :
                          j \in 1 .. Len(numbering.abstractNums[a].lvls) } :
                      a \in 1 .. Len(numbering.abstractNums) } :
        lvl.ilvl = level }

FormatAt(num_id, level) ==
    IF HasFormat(num_id) /\ LvlsAt(num_id, level) # {}
    THEN LET lvl == CHOOSE l \in LvlsAt(num_id, level) : TRUE
         IN  IF "numFmt" \in DOMAIN lvl THEN lvl.numFmt ELSE "decimal"
    ELSE "decimal"

TextAt(num_id, level) ==
    IF HasFormat(num_id) /\ LvlsAt(num_id, level) # {}
    THEN LET lvl == CHOOSE l \in LvlsAt(num_id, level) : TRUE
         IN  IF "lvlText" \in DOMAIN lvl THEN lvl.lvlText ELSE <<Ph(1), Lit(".")>>
    ELSE <<Ph(1), Lit(".")>>

(* C4 as stated: a call for a list-id that has no registered format produces
   no label and moves no counter of any list. *)
C4_NoFormatNoEffect ==
    \A k \in CallIdx :
        ~HasFormat(calls[k].num_id) =>
            /\ calls[k].label = None
            /\ \A id \in ListIds : CounterRow(calls[k].after, id) = CounterRow(calls[k].before, id)

(* C4 amended: a call for a list-id that has no registered format still
   advances that list's counter at the level by one, resets its deeper levels
   and leaves its shallower levels and every other list alone; the label it
   returns is the default template "%1." filled with the level-0 counter in
   decimal. *)
C4_NoFormatDefaultLabel ==
    \A k \in CallIdx :
        LET c == calls[k]
        IN  ~HasFormat(c.num_id) =>
              /\ \A i \in Levels :
                    CounterRow(c.after, c.num_id)[i] =
                        IF i = c.ilvl THEN CounterRow(c.before, c.num_id)[i] + 1
                        ELSE IF i > c.ilvl THEN 0 ELSE CounterRow(c.before, c.num_id)[i]
              /\ \A id \in ListIds \ {c.num_id} : CounterRow(c.after, id) = CounterRow(c.before, id)
              /\ c.raised = None =>
                    c.label = ToString(CounterRow(c.after, c.num_id)[0]) \o "."

C4_Witness ==
    \E k \in CallIdx :
        /\ ~HasFormat(calls[k].num_id)
        /\ calls[k].raised = None
        /\ calls[k].label = "2."
        /\ calls[k].ilvl = 0

(* what C5 expects: placeholder %k rendered in the format of level k-1 *)
RECURSIVE OwnFormatLabel(_, _, _, _)
OwnFormatLabel(result, num_id, row, i) ==
    IF i < 0 THEN result
    ELSE OwnFormatLabel(
            [j \in 1 .. Len(result) |->
                IF result[j] = [ph |-> i + 1]
                THEN [lit |-> _format_number(row[i], FormatAt(num_id, i))]
                ELSE result[j]],
            num_id, row, i - 1)

(* C5 as stated: in a returned label every placeholder %k, 1 <= k <= level+1,
   is the counter of level k-1 rendered in the format kind bound to level k-1
   of the list. *)
C5_AncestorOwnFormat ==
    \A k \in CallIdx :
        LET c == calls[k]
        IN  c.raised = None =>
              c.label = TemplateStr(OwnFormatLabel(TextAt(c.num_id, c.ilvl), c.num_id,
                                                   c.after[c.num_id], c.ilvl))

(* the number of level-0 calls for the list among the first k calls *)
Level0Calls(num_id, k) ==
    Cardinality({ j \in 1 .. k : calls[j].num_id = num_id /\ calls[j].ilvl = 0 })

(* C6: the k-th level-0 call for a list-id leaves its level-0 counter at k,
   exactly one more than before, and, level 0 being decimal, renders the
   decimal value k in the level's template: "1", "2", ..., "N" in order. *)
C6_Level0Monotone ==
    \A k \in CallIdx :
        LET c == calls[k]
            n == Level0Calls(c.num_id, k)
        IN  c.ilvl = 0 =>
              /\ c.after[c.num_id][0] = n
              /\ CounterRow(c.before, c.num_id)[0] = n - 1
              /\ (c.raised = None /\ FormatAt(c.num_id, 0) = "decimal") =>
                    c.label = TemplateStr(
                        [j \in 1 .. Len(TextAt(c.num_id, 0)) |->
                            IF TextAt(c.num_id, 0)[j] = [ph |-> 1]
                            THEN [lit |-> ToString(n)]
                            ELSE TextAt(c.num_id, 0)[j]])

C6_Witness ==
    /\ Len(calls) = 3
    /\ \A k \in CallIdx : calls[k].num_id = "1" /\ calls[k].ilvl = 0
    /\ calls[1].label = "1"
    /\ calls[2].label = "2"
    /\ calls[3].label = "3"

(* the latest call for the same list before call k, or 0 *)
PrevCall(k) ==
    LET earlier == { j \in 1 .. (k - 1) : calls[j].num_id = calls[k].num_id }
    IN  IF earlier = {} THEN 0 ELSE CHOOSE j \in earlier : \A i \in earlier : i <= j

(* C7: after every get_number(list_id, L) the counter of level L is one more
   than before and every deeper counter is 0; so a visit to a level that
   follows a visit to a shallower level of the list uses counter value 1
   (levels 0, 1, 0, then 1: the value is 1, not 2). *)
C7_IncrementAndReset ==
    \A k \in CallIdx :
        LET c == calls[k]
        IN  /\ c.after[c.num_id][c.ilvl] = CounterRow(c.before, c.num_id)[c.ilvl] + 1
            /\ \A j \in Levels : j > c.ilvl => c.after[c.num_id][j] = 0
            /\ (PrevCall(k) # 0 /\ calls[PrevCall(k)].ilvl < c.ilvl) =>
                    c.after[c.num_id][c.ilvl] = 1

C7_Witness ==
    /\ Len(calls) = 4
    /\ \A k \in CallIdx : calls[k].num_id = "1"
    /\ calls[1].ilvl = 0 /\ calls[2].ilvl = 1 /\ calls[3].ilvl = 0 /\ calls[4].ilvl = 1
    /\ calls[4].after["1"][0] = 2
    /\ calls[4].after["1"][1] = 1
    /\ calls[4].label = "2.a"

----
(* Properties of the projection *)

(* the text nodes of the paragraph's runs that have text *)
RunTexts(para) ==
    LET kept == SelectSeq(para.runs, LAMBDA run : run.text # "")
    IN  [j \in 1 .. Len(kept) |-> kept[j].text]

NodeTexts(nodes) == [j \in 1 .. Len(nodes) |-> Get(nodes[j], "text", None)]

(* the node of a labelled paragraph starts with the unmarked label segment *)
LabelFirst(para, node) ==
    /\ Get(node, "content", <<>>) # <<>>
    /\ node.content[1] = [type |-> "text", text |-> para.numbering \o " "]
    /\ NodeTexts(Tail(node.content)) = RunTexts(para)

(* C8 as stated: for every paragraph that has a numbering label L the
   projected node's content starts with one text node, without marks, whose
   text is L and a single space, followed by the paragraph's own text nodes in
   order; also when the paragraph has no non-empty run. *)
C8_LabelSegmentFirst ==
    (pc \in {"projected", "exported"}) =>
        \A k \in 1 .. Len(elements) :
            (IsA(elements[k], "Paragraph") /\ Truthy(elements[k].numbering)) =>
                LabelFirst(elements[k], tiptap.content[k])

RECURSIVE HeadingsInRange(_)
(* every heading node at or below the node has a level in 1..6 *)
HeadingsInRange(node) ==
    /\ Get(node, "type", None) = "heading" => node.attrs.level \in 1 .. 6
    /\ \A k \in 1 .. Len(Get(node, "content", <<>>)) : HeadingsInRange(node.content[k])

(* C9 as stated: every heading node anywhere in a projected document, made
   from a heading paragraph or from a section title, has attrs.level in 1..6. *)
C9_HeadingLevelsInRange ==
    (pc \in {"to_tiptap", "to_tiptap(dict)", "convert"}) => HeadingsInRange(tiptap)

----
(* Properties of the raw styles *)

RawKeys == {"rawTblPr", "rawTblGrid", "rawXml"}

RECURSIVE RawFragments(_)
(* the tree with, at every node, only the raw fragments the node carries *)
RawFragments(node) ==
    [type |-> Get(node, "type", None),
     raw |-> [k \in DOMAIN Get(node, "attrs", EmptyDict) \cap RawKeys |-> node.attrs[k]],
     content |-> [k \in 1 .. Len(Get(node, "content", <<>>)) |-> RawFragments(node.content[k])]]

(* no two tables of the tree have the same id *)
NoRepeat(seq) == \A i, j \in 1 .. Len(seq) : seq[i] = seq[j] => i = j

TableIds(tables) == [k \in 1 .. Len(tables) |-> tables[k].attrs.id]

DistinctIds(tree) == NoRepeat(TableIds(TablesBelow(tree)))

(* C10: restoring the extracted styles onto the tree they were extracted from
   gives every table, row and cell the rawTblPr, rawTblGrid and rawXml it had
   before the extraction, when the tables of the tree have distinct ids; the
   restoration does not raise. *)
C10_RestoreInvertsExtract ==
    /\ pc # "failed"
    /\ (pc \in {"restored", "exported"} /\ DistinctIds(tiptap_doc)) =>
            RawFragments(tiptap) = RawFragments(tiptap_doc)

C10_Witness ==
    /\ pc = "restored"
    /\ tiptap_doc.content = <<NFull, NOuter>>
    /\ DOMAIN styles = {"t1", "t5", "t2"}
    /\ tiptap.content[1].attrs.rawTblPr = "<w:tblPr>1"
    /\ tiptap.content[1].content[2].content[2].attrs.rawXml = "<w:tcPr>11"
    /\ tiptap.content[2].content[1].content[1].content[2].attrs.rawTblPr = "<w:tblPr>2"

(* the tables among the top-level nodes that carry a raw table-property fragment *)
RawTblPrNodes(doc) ==
    { k \in 1 .. Len(doc.content) :
        /\ Get(doc.content[k], "type", None) = "table"
        /\ "rawTblPr" \in DOMAIN Get(doc.content[k], "attrs", EmptyDict) }

(* C2 as stated: a table node that carries a restored raw table-property
   fragment is exported with that fragment spliced in unchanged, in place of
   the table style the exporter would otherwise set. *)
C2_RawTblPrSpliced ==
    pc = "exported" =>
        \A k \in RawTblPrNodes(tiptap) :
            \E t \in 1 .. Len(document.body) :
                /\ document.body[t].tag = "w:tbl"
                /\ document.body[t].raw_tblPr = tiptap.content[k].attrs.rawTblPr
                /\ document.body[t].style = None

----
(* Properties of the round trip: parse, project, export *)

(* the text and the bold / italic formatting of the runs that have text *)
Formatted(runs) ==
    LET kept == SelectSeq(runs, LAMBDA run : run.text # "")
    IN  [j \in 1 .. Len(kept) |->
            [text |-> kept[j].text,
             bold |-> (kept[j].bold = "True"),
             italic |-> (kept[j].italic = "True")]]

(* a cell as the paragraphs in it that have text *)
CellParas(cell) ==
    SelectSeq([i \in 1 .. Len(cell.blocks) |-> Formatted(cell.blocks[i].runs)],
              LAMBDA runs : runs # <<>>)

(* a body or container block as what the round trip is to keep of it *)
BlockView(block) ==
    IF block.tag = "w:tbl"
    THEN [rows |-> [r \in 1 .. Len(block.rows) |->
                        [c \in 1 .. Len(block.rows[r].cells) |->
                            CellParas(block.rows[r].cells[c])]]]
    ELSE [runs |-> Formatted(block.runs)]

(* the paragraphs that have text and the tables, in order *)
DocumentView(blocks) ==
    LET kept == SelectSeq(blocks, LAMBDA b : b.tag = "w:tbl" \/ (b.tag = "w:p" /\ Formatted(b.runs) # <<>>))
    IN  [k \in 1 .. Len(kept) |-> BlockView(kept[k])]

(* the container has only the modelled features: no table in a table cell,
   no heading deeper than 6, no list item below level 0 *)
ModelledParagraph(p) ==
    /\ HeadingLevel(p.style) <= 6
    /\ ("numPr" \in DOMAIN p /\ "ilvl" \in DOMAIN p.numPr) => p.numPr.ilvl = 0

ModelledBlock(b) ==
    \/ b.tag \notin {"w:p", "w:tbl"}
    \/ b.tag = "w:p" /\ ModelledParagraph(b)
    \/ /\ b.tag = "w:tbl"
       /\ \A r \in 1 .. Len(b.rows) : \A c \in 1 .. Len(b.rows[r].cells) :
            \A i \in 1 .. Len(b.rows[r].cells[c].blocks) :
                /\ b.rows[r].cells[c].blocks[i].tag = "w:p"
                /\ ModelledParagraph(b.rows[r].cells[c].blocks[i])

Modelled(blocks) == \A k \in 1 .. Len(blocks) : ModelledBlock(blocks[k])

(* C1 as stated: for a container with only the modelled features the exported
   document has the same paragraph text, the same bold / italic formatting per
   run and the same text in every table cell as the container. *)
C1_RoundTripSameText ==
    (pc = "exported" /\ Modelled(container)) =>
        DocumentView(document.body) = DocumentView(container)

(* what the round trip makes of a paragraph: the label and a space, as a run
   of its own without formatting, in front of the runs of a list item that has
   text; every run bold when the paragraph is a heading in a table cell *)
Labelled(p, parsed, in_cell) ==
    LET runs == IF Truthy(parsed.numbering) /\ Formatted(p.runs) # <<>>
                THEN << [text |-> parsed.numbering \o " ", bold |-> FALSE, italic |-> FALSE] >>
                     \o Formatted(p.runs)
                ELSE Formatted(p.runs)
    IN  IF in_cell /\ HeadingLevel(p.style) > 0
        THEN [j \in 1 .. Len(runs) |-> [runs[j] EXCEPT !.bold = TRUE]]
        ELSE runs

(* the paragraphs of a cell that have text, with the elements parsed from them *)
LabelledCell(cell, parsed) ==
    LET kept == SelectSeq(cell.blocks, LAMBDA b : Formatted(b.runs) # <<>>)
    IN  IF Len(kept) # Len(parsed.content) THEN <<>>
        ELSE [i \in 1 .. Len(kept) |-> Labelled(kept[i], parsed.content[i], TRUE)]

LabelledBlock(block, parsed) ==
    IF block.tag = "w:tbl"
    THEN [rows |-> [r \in 1 .. Len(block.rows) |->
                        [c \in 1 .. Len(block.rows[r].cells) |->
                            IF CellParas(block.rows[r].cells[c]) = <<>> THEN <<>>
                            ELSE LabelledCell(block.rows[r].cells[c],
                                              parsed.rows[r].cells[c])]]]
    ELSE [runs |-> Labelled(block, parsed, FALSE)]

(* the paragraphs that have text and the tables of the container, with the
   elements parsed from them *)
LabelledView(blocks, parsed) ==
    LET kept == { k \in 1 .. Len(blocks) :
                    \/ blocks[k].tag = "w:tbl"
                    \/ blocks[k].tag = "w:p" /\ (Formatted(blocks[k].runs) # <<>>
                                                  \/ AsksNumber(blocks[k])) }
        nth(n) == CHOOSE k \in kept : Cardinality({ j \in kept : j <= k }) = n
        shown == { n \in 1 .. Len(parsed) :
                    blocks[nth(n)].tag = "w:tbl" \/ Formatted(blocks[nth(n)].runs) # <<>> }
        pick(m) == CHOOSE n \in shown : Cardinality({ j \in shown : j <= n }) = m
    IN  IF Cardinality(kept) # Len(parsed) THEN <<>>
        ELSE [m \in 1 .. Cardinality(shown) |-> LabelledBlock(blocks[nth(pick(m))], parsed[pick(m)])]

(* C1 amended: the exported document has, in order, the tables and the
   paragraphs with text of the container, each run with its text and its bold
   / italic formatting; a list item with text starts with one more run, its
   label and a space, without formatting; a cell holds its paragraphs with
   text; the runs of a heading in a cell are bold.  The parse raises only for
   a list item in a container that has no numbering part. *)
C1_RoundTripLabelledText ==
    /\ pc = "failed" => ~numbering.present
    /\ (pc = "exported" /\ Modelled(container)) =>
            /\ document.raised = None
            /\ DocumentView(document.body) = LabelledView(container, elements)

C1_Witness ==
    /\ pc = "exported"
    /\ container = <<PItem, TPlain>>
    /\ DocumentView(document.body)[1].runs =
            << [text |-> "1. ", bold |-> FALSE, italic |-> FALSE],
               [text |-> "x", bold |-> FALSE, italic |-> FALSE] >>
    /\ DocumentView(document.body)[2].rows[2][1] =
            << << [text |-> "2. ", bold |-> FALSE, italic |-> FALSE],
                  [text |-> "x", bold |-> FALSE, italic |-> FALSE] >> >>

----
(* Properties of the restoration onto an edited document *)

Attrs(node) == Get(node, "attrs", EmptyDict)

(* the fragments a vault entry addresses to the node itself *)
OwnFragments(entry) == [k \in DOMAIN entry \cap RawKeys |-> entry[k]]

(* the vault entry of the k-th child of a node whose entry is given: a table's
   entry lists its rows and a row's entry its cells, by index from 0 *)
ChildEntry(entry, k) ==
    IF "rows" \in DOMAIN entry THEN Get(entry.rows, k - 1, EmptyDict)
    ELSE IF "cells" \in DOMAIN entry THEN Get(entry.cells, k - 1, EmptyDict)
    ELSE EmptyDict

(* the vault entry of a node: the one under its id for a table that has one,
   else the one its parent's entry lists at its index *)
EntryOf(node, styles_, listed) ==
    IF HasTableId(node)
    THEN Get(styles_, node.attrs.id, EmptyDict)
    ELSE listed

RECURSIVE OnlyMatchingAttached(_, _, _, _)
(* after is before with, at every node, the fragments the vault addresses to
   that node and nothing else changed; a node the vault has nothing for is
   the same, attrs or no attrs *)
OnlyMatchingAttached(before, after, styles_, listed) ==
    LET entry == EntryOf(before, styles_, listed)
        own == OwnFragments(entry)
    IN  /\ DOMAIN after \ {"attrs"} = DOMAIN before \ {"attrs"}
        /\ \A f \in DOMAIN before \ {"attrs", "content"} : after[f] = before[f]
        /\ IF own = EmptyDict
           THEN /\ ("attrs" \in DOMAIN after) = ("attrs" \in DOMAIN before)
                /\ Attrs(after) = Attrs(before)
           ELSE /\ "attrs" \in DOMAIN after
                /\ DOMAIN after.attrs = DOMAIN Attrs(before) \cup DOMAIN own
                /\ \A k \in DOMAIN after.attrs :
                        after.attrs[k] = IF k \in DOMAIN own THEN own[k] ELSE before.attrs[k]
        /\ Len(Get(after, "content", <<>>)) = Len(Get(before, "content", <<>>))
        /\ \A k \in 1 .. Len(Get(before, "content", <<>>)) :
                OnlyMatchingAttached(before.content[k], after.content[k], styles_,
                                     ChildEntry(entry, k))

(* C11: restoring a vault onto a document in which some of its entries have
   no matching live node (the table was deleted, the row or cell index is
   beyond the table's size) completes without error, attaches those entries
   to no node and leaves every node that has no matching entry unchanged. *)
C11_UnmatchedEntriesDropped ==
    [][pc = "edited" =>
            /\ pc' = "merged"
            /\ OnlyMatchingAttached(tiptap, tiptap', styles, EmptyDict)]_vars

(* the second row of the table was deleted: the entry of its cell is dropped,
   the entries of the table and of the first row are back on their nodes *)
C11_Witness ==
    /\ pc = "merged"
    /\ tiptap_doc.content = <<NFull, NProps>>
    /\ Len(tiptap.content) = 2
    /\ Len(tiptap.content[1].content) = 1
    /\ 1 \in DOMAIN styles["t1"].rows
    /\ tiptap.content[1].attrs.rawTblPr = "<w:tblPr>1"
    /\ tiptap.content[1].content[1].content[1].attrs.rawXml = "<w:tcPr>00"

----
(* Properties of the raw styles the conversion stores *)

RECURSIVE SectionTables(_)
(* the tables of a section that become table nodes: those of its content
   and of its child sections *)
SectionTables(section) ==
    SelectSeq(section.content, LAMBDA elem : IsA(elem, "Table"))
    \o Flatten([k \in 1 .. Len(section.children) |-> SectionTables(section.children[k])])

(* the tables of the element list that become table nodes *)
ProjectedTables(elems) ==
    Flatten([k \in 1 .. Len(elems) |->
                IF IsA(elems[k], "Table") THEN <<elems[k]>>
                ELSE IF IsA(elems[k], "Section") THEN SectionTables(elems[k])
                ELSE <<>>])

(* the fragments of one table, each with the key of its position *)
FragmentsOf(table) ==
    LET prefix == "table:" \o table.id
        RowKey(r) == prefix \o ":row:" \o ToString(r - 1)
    IN  (IF Truthy(table.raw_tblPr) THEN {<<prefix \o ":tblPr", table.raw_tblPr>>} ELSE {})
        \cup (IF Truthy(table.raw_tblGrid)
              THEN {<<prefix \o ":tblGrid", table.raw_tblGrid>>} ELSE {})
        \cup { <<RowKey(r), table.rows[r].raw_xml>> :
                 r \in { r \in 1 .. Len(table.rows) : Truthy(table.rows[r].raw_xml) } }
        \cup UNION { { <<RowKey(r) \o ":cell:" \o ToString(c - 1),
                         table.rows[r].cells[c].raw_xml>> :
                         c \in { c \in 1 .. Len(table.rows[r].cells) :
                                   Truthy(table.rows[r].cells[c].raw_xml) } } :
                     r \in 1 .. Len(table.rows) }

ExpectedFragments(elems) ==
    UNION { FragmentsOf(ProjectedTables(elems)[k]) : k \in 1 .. Len(ProjectedTables(elems)) }

(* json.loads of a text dumps wrote: the key and value of every item *)
loads(text) ==
    { <<text[4 * j - 2].text, text[4 * j].text>> : j \in 1 .. ((Len(text) - 1) \div 4) }

(* the entries of the storage nodes among the top-level nodes *)
StoredEntries(doc) ==
    UNION { loads(doc.content[k].attrs.data) :
              k \in { k \in 1 .. Len(doc.content) : doc.content[k].type = "rawStylesStorage" } }

RECURSIVE NoneCarries(_, _)
(* no node at or below the node has one of the attributes *)
NoneCarries(node, keys) ==
    /\ DOMAIN Attrs(node) \cap keys = {}
    /\ \A k \in 1 .. Len(Get(node, "content", <<>>)) : NoneCarries(node.content[k], keys)

(* C12: after TipTapConverter.convert no table, row or cell node retains a
   rawTblPr, rawTblGrid or rawXml attribute, and the stored map holds exactly
   the removed fragments, each unchanged under the key built from its table's
   id and its own row and cell index: table:<id>:tblPr, table:<id>:tblGrid,
   table:<id>:row:<i>, table:<id>:row:<i>:cell:<j>. *)
C12_FragmentsStoredUnderKeys ==
    pc = "convert" =>
        /\ NoneCarries(tiptap, RawKeys)
        /\ StoredEntries(tiptap) = ExpectedFragments(elements)

C12_Witness ==
    /\ pc = "convert"
    /\ elements = <<ETable, ESection>>
    /\ <<"table:t1:tblPr", "<w:tblPr>t1">> \in StoredEntries(tiptap)
    /\ <<"table:t1:row:0", "<w:trPr>0">> \in StoredEntries(tiptap)
    /\ <<"table:t1:row:1:cell:1", "<w:tcPr>11">> \in StoredEntries(tiptap)
    /\ DOMAIN tiptap.content[1].content[1].content[1].attrs
            = {"colspan", "backgroundColor", "borders"}

RECURSIVE StorageCount(_)
(* the number of rawStylesStorage nodes at and below the node *)
StorageCount(node) ==
    LET below == [k \in 1 .. Len(Get(node, "content", <<>>)) |-> StorageCount(node.content[k])]
        Sum[k \in 0 .. Len(below)] == IF k = 0 THEN 0 ELSE Sum[k - 1] + below[k]
    IN  (IF Get(node, "type", None) = "rawStylesStorage" THEN 1 ELSE 0) + Sum[Len(below)]

(* C13: a document produced by TipTapConverter.convert holds at most one
   rawStylesStorage node; whenever a fragment was extracted the node is
   there, as the last of the top-level nodes, and it is never inside another
   node. *)
C13_OneStorageNodeLast ==
    pc = "convert" =>
        /\ StorageCount(tiptap) <= 1
        /\ ExpectedFragments(elements) # {} =>
                tiptap.content[Len(tiptap.content)].type = "rawStylesStorage"
        /\ \A k \in 1 .. Len(tiptap.content) :
                tiptap.content[k].type # "rawStylesStorage" => StorageCount(tiptap.content[k]) = 0

C13_Witness ==
    /\ pc = "convert"
    /\ elements = <<ETable, EPlain>>
    /\ Len(tiptap.content) = 3
    /\ tiptap.content[3].type = "rawStylesStorage"
    /\ StorageCount(tiptap) = 1

(* C14 as stated: after the raw-style extraction no node of the document
   carries a width in the container's units: every colwidth of a cell and
   every colwidths of a table has been removed. *)
C14_NoNativeWidths ==
    pc = "convert" => NoneCarries(tiptap, {"colwidth", "colwidths"})

----
(* Properties of the projected tables *)

CellTypes == {"tableHeader", "tableCell"}

RECURSIVE CellsFilled(_)
(* every cell node at or below the node has a content node *)
CellsFilled(node) ==
    /\ Get(node, "type", None) \in CellTypes => Get(node, "content", <<>>) # <<>>
    /\ \A k \in 1 .. Len(Get(node, "content", <<>>)) : CellsFilled(node.content[k])

(* a cell that parsed to no content: nothing in it, or the one paragraph
   without text the parser puts into a cell it found empty *)
ParsedEmpty(cell) ==
    \/ cell.content = <<>>
    \/ /\ Len(cell.content) = 1
       /\ IsA(cell.content[1], "Paragraph")
       /\ RunTexts(cell.content[1]) = <<>>

(* one paragraph node, without text nodes *)
OneEmptyParagraph(nodes) ==
    /\ Len(nodes) = 1
    /\ nodes[1].type = "paragraph"
    /\ \A j \in 1 .. Len(Get(nodes[1], "content", <<>>)) : nodes[1].content[j].type # "text"

(* the top-level elements that are tables; the k-th node of the projected
   document is the node of the k-th element *)
TopTables == { k \in 1 .. Len(elements) : IsA(elements[k], "Table") }

IsProjected == pc \in {"to_tiptap", "to_tiptap(dict)", "convert"}

(* C15: every tableHeader / tableCell node of a projected document has at
   least one content node, and a cell that parsed to no content projects to
   exactly one paragraph node that contains no text node. *)
C15_CellsNeverEmpty ==
    IsProjected =>
        /\ CellsFilled(tiptap)
        /\ \A k \in TopTables :
             \A r \in 1 .. Len(elements[k].rows) :
               \A c \in 1 .. Len(elements[k].rows[r].cells) :
                  ParsedEmpty(elements[k].rows[r].cells[c]) =>
                      OneEmptyParagraph(tiptap.content[k].content[r].content[c].content)

C15_Witness ==
    /\ pc = "to_tiptap"
    /\ elements = <<ERagged>>
    /\ tiptap.content[1].content[1].content[1].content = << [type |-> "paragraph", content |-> <<>>] >>
    /\ tiptap.content[1].content[2].content[1].content = << [type |-> "paragraph"] >>

RECURSIVE NoTableInCell(_, _)
(* no table node in a cell, at or below the node *)
NoTableInCell(node, in_cell) ==
    /\ in_cell => Get(node, "type", None) # "table"
    /\ \A k \in 1 .. Len(Get(node, "content", <<>>)) :
            NoTableInCell(node.content[k], in_cell \/ Get(node, "type", None) \in CellTypes)

(* C16 as stated: in every projected document no table node is a descendant
   of a tableHeader / tableCell node: a table nested in a cell is replaced,
   at its position in the cell, by exactly one placeholder paragraph. *)
C16_NestedTablesFlattened ==
    IsProjected =>
        /\ NoTableInCell(tiptap, FALSE)
        /\ \A k \in TopTables :
             \A r \in 1 .. Len(elements[k].rows) :
               \A c \in 1 .. Len(elements[k].rows[r].cells) :
                 \A i \in 1 .. Len(elements[k].rows[r].cells[c].content) :
                    IsA(elements[k].rows[r].cells[c].content[i], "Table") =>
                        tiptap.content[k].content[r].content[c].content[i] = NestedTablePlaceholder

RECURSIVE HeaderRowOnly(_)
(* in every table at or below the node the cells of row 0 are tableHeader
   nodes and the cells of every other row tableCell nodes *)
HeaderRowOnly(node) ==
    /\ Get(node, "type", None) = "table" =>
          \A r \in 1 .. Len(node.content) :
            \A c \in 1 .. Len(node.content[r].content) :
                node.content[r].content[c].type = (IF r = 1 THEN "tableHeader" ELSE "tableCell")
    /\ \A k \in 1 .. Len(Get(node, "content", <<>>)) : HeaderRowOnly(node.content[k])

(* C17: in every projected table all cells of row 0 have type tableHeader
   and all cells of every row with index >= 1 have type tableCell, whatever
   the table's content. *)
C17_FirstRowIsHeader ==
    IsProjected => HeaderRowOnly(tiptap)

C17_Witness ==
    /\ pc = "convert"
    /\ elements = <<ERagged>>
    /\ tiptap.content[1].content[1].content[1].type = "tableHeader"
    /\ tiptap.content[1].content[2].content[2].type = "tableCell"
    /\ tiptap.content[1].content[3].content[1].type = "tableCell"

----
(* Properties of the export *)

Exported == pc \in {"exported", "exported edited"}

NodeType(node) == Get(node, "type", None)

KnownTypes == {"paragraph", "heading", "table", "section"}

(* C18 as stated, for the export: a node of unknown type is replaced by
   exactly one empty paragraph at its position and the other nodes are
   converted; it is neither dropped nor a cause of abort.  Read on the
   top-level nodes that follow paragraphs only, each of which is one
   paragraph of the body. *)
C18_UnknownBecomesEmptyParagraph ==
    Exported =>
        /\ document.raised = None
        /\ \A k \in 1 .. Len(tiptap.content) :
              (/\ NodeType(tiptap.content[k]) \notin KnownTypes
               /\ \A j \in 1 .. (k - 1) : NodeType(tiptap.content[j]) = "paragraph") =>
                    /\ Len(document.body) >= k
                    /\ document.body[k] = NewParagraph(Normal)

(* the text a paragraph or heading node spells *)
NodeText(node) ==
    LET texts == SelectSeq(Get(node, "content", <<>>), LAMBDA n : NodeType(n) = "text")
    IN  Str([j \in 1 .. Len(texts) |-> Get(texts[j], "text", "")])

HeadingStyle(node) ==
    LET level == Get(Attrs(node), "level", 1)
    IN  IF level = 0 THEN Style("Title", "", "") ELSE Style("Heading", " ", ToString(level))

(* the body construct of a node: a paragraph with the node's text, in the
   heading's style for a heading; a table with the node's rows *)
Construct(node) ==
    IF NodeType(node) = "table"
    THEN [tag |-> "w:tbl", rows |-> Len(Get(node, "content", <<>>))]
    ELSE [tag |-> "w:p",
          style |-> IF NodeType(node) = "heading" THEN HeadingStyle(node) ELSE Normal,
          text |-> NodeText(node)]

(* a block of the exported body, as a construct *)
Seen(block) ==
    IF block.tag = "w:tbl"
    THEN [tag |-> "w:tbl", rows |-> Len(block.rows)]
    ELSE [tag |-> "w:p", style |-> block.style, text |-> ParaText(block)]

SeenBody == [k \in 1 .. Len(document.body) |-> Seen(document.body[k])]

RECURSIVE BodyLevel(_)
(* the paragraph, heading and table nodes of a node list in document order,
   a section standing for its children *)
BodyLevel(nodes) ==
    Flatten([k \in 1 .. Len(nodes) |->
                IF NodeType(nodes[k]) = "section" THEN BodyLevel(Get(nodes[k], "content", <<>>))
                ELSE IF NodeType(nodes[k]) \in {"paragraph", "heading", "table"} THEN <<nodes[k]>>
                ELSE <<>>])

(* C19 as stated: the exporter emits exactly one body construct for every
   paragraph, heading and table node of the tree, a section contributing its
   children in place, and the constructs are in the document order of the
   nodes. *)
C19_OneConstructPerNode ==
    Exported =>
        SeenBody = [k \in 1 .. Len(BodyLevel(tiptap.content)) |->
                        Construct(BodyLevel(tiptap.content)[k])]

(* a table node with a cell in some row *)
HasCell(node) ==
    \E r \in 1 .. Len(Get(node, "content", <<>>)) : RowLen(node.content[r]) > 0

RECURSIVE Emitted(_)
(* the constructs a node puts into the body, in order: one for a paragraph or
   a heading, one for a table that has a cell, followed by what the tables
   and sections at the second or a later place of its cells put there; a
   section puts there what its children do *)
Emitted(node) ==
    LET below(nodes) == Flatten([k \in 1 .. Len(nodes) |-> Emitted(nodes[k])])
        later(cell) ==
            LET content == Get(cell, "content", <<>>)
            IN  below(SelectSeq(SubSeq(content, 2, Len(content)),
                                LAMBDA n : NodeType(n) \in {"table", "section"}))
        cells(row) ==
            Flatten([c \in 1 .. RowLen(row) |-> later(row.content[c])])
    IN  IF NodeType(node) \in {"paragraph", "heading"} THEN <<Construct(node)>>
        ELSE IF NodeType(node) = "section" THEN below(Get(node, "content", <<>>))
        ELSE IF NodeType(node) = "table" /\ HasCell(node)
        THEN <<Construct(node)>>
             \o Flatten([r \in 1 .. Len(node.content) |-> cells(node.content[r])])
        ELSE <<>>

EmittedBy(nodes) == Flatten([k \in 1 .. Len(nodes) |-> Emitted(nodes[k])])

(* C19 amended: the exporter emits, in the document order of the nodes, one
   body construct for every paragraph and heading node outside the tables
   and one for every table node that has at least one cell; a table node
   without a cell emits nothing; a section contributes its children in
   place; a table or section that is the second or a later node of a cell
   is emitted into the body after the table that holds it, one that is the
   first node of a cell is left out. *)
C19_OneConstructPerEmittingNode ==
    Exported =>
        /\ document.raised = None
        /\ SeenBody = EmittedBy(tiptap.content)

(* the cell's first node, a table, is left out; the section after it puts
   its table into the body *)
C19_Witness ==
    /\ pc = "exported"
    /\ tiptap.content = <<NFirst, NHeading>>
    /\ SeenBody = << [tag |-> "w:tbl", rows |-> 1],
                     [tag |-> "w:tbl", rows |-> 1],
                     [tag |-> "w:p", style |-> Style("Heading", " ", "2"), text |-> "q"] >>

(* the rows of the table node do not all have the same number of cells *)
Ragged(node) ==
    \E r1, r2 \in 1 .. Len(Get(node, "content", <<>>)) :
        RowLen(node.content[r1]) # RowLen(node.content[r2])

(* the table has as many columns as the widest row of the node has cells *)
AsWideAsWidest(table, node) ==
    /\ \A r \in 1 .. Len(table.rows) :
            \A q \in 1 .. Len(node.content) : Len(table.rows[r].cells) >= RowLen(node.content[q])
    /\ \A r \in 1 .. Len(table.rows) :
            \E q \in 1 .. Len(node.content) : Len(table.rows[r].cells) = RowLen(node.content[q])

(* the texts of the paragraph and heading nodes of a cell node that have text *)
CellNodeTexts(cell) ==
    LET kept == SelectSeq(Get(cell, "content", <<>>),
                          LAMBDA n : NodeType(n) \in {"paragraph", "heading"} /\ NodeText(n) # "")
    IN  [i \in 1 .. Len(kept) |-> NodeText(kept[i])]

(* the texts of the paragraphs of an exported cell that have text *)
CellTexts(cell) ==
    LET kept == SelectSeq(cell.blocks, LAMBDA b : ParaText(b) # "")
    IN  [i \in 1 .. Len(kept) |-> ParaText(kept[i])]

(* the place in the body of the table of the k-th top-level node *)
BodyIndex(k) == Len(EmittedBy(SubSeq(tiptap.content, 1, k - 1))) + 1

(* C20: a table node whose rows have different numbers of cells is exported:
   the exported table has one row per row node and as many columns as the
   widest row, cell (r, c) holds the content of the c-th cell node of row r
   when there is one, and every other cell is empty. *)
C20_RaggedRowsPadded ==
    Exported =>
        \A k \in 1 .. Len(tiptap.content) :
            (NodeType(tiptap.content[k]) = "table" /\ Ragged(tiptap.content[k])) =>
                LET node == tiptap.content[k]
                    table == document.body[BodyIndex(k)]
                IN  /\ Len(document.body) >= BodyIndex(k)
                    /\ table.tag = "w:tbl"
                    /\ Len(table.rows) = Len(node.content)
                    /\ AsWideAsWidest(table, node)
                    /\ \A r \in 1 .. Len(table.rows) :
                         \A c \in 1 .. Len(table.rows[r].cells) :
                            IF c <= RowLen(node.content[r])
                            THEN CellTexts(table.rows[r].cells[c])
                                    = CellNodeTexts(node.content[r].content[c])
                            ELSE table.rows[r].cells[c].blocks = <<NewParagraph(Normal)>>

C20_Witness ==
    /\ pc = "exported"
    /\ tiptap.content = <<Para("p"), NRagged>>
    /\ Len(document.body[2].rows) = 3
    /\ \A r \in 1 .. 3 : Len(document.body[2].rows[r].cells) = 3
    /\ CellTexts(document.body[2].rows[2].cells[1]) = <<"s", "t">>
    /\ CellTexts(document.body[2].rows[2].cells[3]) = <<"u">>
    /\ document.body[2].rows[1].cells[2].blocks = <<NewParagraph(Normal)>>
    /\ document.body[2].rows[3].cells[1].blocks = <<NewParagraph(Normal)>>

----
(* Properties of the marks *)

RECURSIVE TextNodes(_)
(* the text nodes at and below the node *)
TextNodes(node) ==
    (IF NodeType(node) = "text" THEN {node} ELSE {})
    \cup UNION { TextNodes(node.content[k]) : k \in 1 .. Len(Get(node, "content", <<>>)) }

(* the ids of the comment marks of a text node, in order *)
CommentIds(node) ==
    LET marks == SelectSeq(Get(node, "marks", <<>>), LAMBDA m : m.type = "comment")
    IN  [j \in 1 .. Len(marks) |-> marks[j].attrs.commentId]

(* the run the exporter makes of a text node when only the bold and italic
   marks count *)
BoldItalicRun(node) ==
    [text |-> node.text,
     bold |-> IF \E j \in 1 .. Len(Get(node, "marks", <<>>)) : node.marks[j].type = "bold"
              THEN "True" ELSE "None",
     italic |-> IF \E j \in 1 .. Len(Get(node, "marks", <<>>)) : node.marks[j].type = "italic"
                THEN "True" ELSE "None"]

(* the top-level paragraph nodes *)
TopParagraphs == { k \in 1 .. Len(tiptap.content) : NodeType(tiptap.content[k]) = "paragraph" }

(* C21: a run whose comment id is absent from the registry projects to a
   comment mark whose attrs hold only commentId, without error; and on
   export a text node carrying comment, insertion or deletion marks is
   emitted without error, those marks changing nothing on the run. *)
C21_UnknownCommentAndIgnoredMarks ==
    /\ pc = "convert" =>
          /\ \A node \in TextNodes(tiptap) :
                \A j \in 1 .. Len(Get(node, "marks", <<>>)) :
                    (node.marks[j].type = "comment"
                        /\ node.marks[j].attrs.commentId \notin DOMAIN comments) =>
                            node.marks[j].attrs = [commentId |-> node.marks[j].attrs.commentId]
          /\ \A k \in 1 .. Len(elements) :
                (IsA(elements[k], "Paragraph") /\ ~Truthy(elements[k].numbering)) =>
                    LET kept == SelectSeq(elements[k].runs, LAMBDA run : run.text # "")
                    IN  \A j \in 1 .. Len(kept) :
                            CommentIds(tiptap.content[k].content[j]) = kept[j].comment_ids
    /\ pc = "exported convert" =>
          /\ document.raised = None
          /\ \A k \in TopParagraphs :
                LET kept == SelectSeq(Get(tiptap.content[k], "content", <<>>),
                                      LAMBDA n : NodeType(n) = "text" /\ Get(n, "text", "") # "")
                IN  /\ Len(document.body) >= BodyIndex(k)
                    /\ document.body[BodyIndex(k)].runs
                          = [j \in 1 .. Len(kept) |-> BoldItalicRun(kept[j])]

C21_Witness ==
    /\ pc = "exported convert"
    /\ elements = <<EPlain, ERevised>>
    /\ comments = [c1 |-> [author |-> "bob"]]
    /\ tiptap.content[2].content[1].marks
          = << [type |-> "insertion", attrs |-> [id |-> "7", author |-> "ann", date |-> None]],
               [type |-> "comment", attrs |-> [commentId |-> "c1", author |-> "bob"]],
               [type |-> "comment", attrs |-> [commentId |-> "c9"]] >>
    /\ document.body[2].runs
          = << [text |-> "r", bold |-> "None", italic |-> "None"],
               [text |-> "s", bold |-> "True", italic |-> "None"] >>

----
(* Properties of the Roman formats *)

RECURSIVE Repeat(_, _)
Repeat(s, k) == IF k = 0 THEN "" ELSE s \o Repeat(s, k - 1)

(* the numeral of a decimal digit d, written with the letters for one, five
   and ten of its place *)
PlaceNumeral(d, one, five, ten) ==
    CASE d <= 3 -> Repeat(one, d)
      [] d = 4 -> one \o five
      [] d <= 8 -> five \o Repeat(one, d - 5)
      [] OTHER -> one \o ten

(* the subtractive-notation numeral of n: thousands, hundreds, tens, units *)
UpperNumeral(n) ==
    Repeat("M", n \div 1000)
    \o PlaceNumeral((n \div 100) % 10, "C", "D", "M")
    \o PlaceNumeral((n \div 10) % 10, "X", "L", "C")
    \o PlaceNumeral(n % 10, "I", "V", "X")

LowerNumeral(n) ==
    Repeat("m", n \div 1000)
    \o PlaceNumeral((n \div 100) % 10, "c", "d", "m")
    \o PlaceNumeral((n \div 10) % 10, "x", "l", "c")
    \o PlaceNumeral(n % 10, "i", "v", "x")

Level0Format == numbering_formats["0"][0].format

(* C22: for every counter value n >= 1 a level bound to upperRoman renders n
   as its subtractive-notation Roman numeral (1..4 give I, II, III, IV), and
   lowerRoman renders the same numeral in lower case. *)
C22_RomanNumerals ==
    pc = "labelled" =>
        LET n == calls[1].after["1"][0]
        IN  /\ n = calls[1].before["1"][0] + 1
            /\ calls[1].raised = None
            /\ calls[1].label = IF Level0Format = "upperRoman" THEN UpperNumeral(n)
                                ELSE LowerNumeral(n)
            /\ (n = 1 /\ Level0Format = "upperRoman") => calls[1].label = "I"
            /\ (n = 2 /\ Level0Format = "upperRoman") => calls[1].label = "II"
            /\ (n = 3 /\ Level0Format = "upperRoman") => calls[1].label = "III"
            /\ (n = 4 /\ Level0Format = "upperRoman") => calls[1].label = "IV"

C22_Witness ==
    /\ pc = "labelled"
    /\ Level0Format = "lowerRoman"
    /\ calls[1].after["1"][0] = 3999
    /\ calls[1].label = "mmmcmxcix"

----
(* Properties of the empty top-level paragraph *)

(* a body paragraph that parses to no runs and asks for no numbering label *)
FullyEmpty(el) == el.tag = "w:p" /\ ~AsksNumber(el) /\ ParseRuns(el.runs) = <<>>

(* the body elements the parse looks at *)
BodyContent == { i \in 1 .. Len(container) : container[i].tag \in {"w:p", "w:tbl"} }

OnlyContent == \E i \in BodyContent : BodyContent = {i} /\ FullyEmpty(container[i])

EmptyParsed(elem) ==
    IsA(elem, "Paragraph") /\ elem.runs = <<>> /\ ~Truthy(elem.numbering)

AfterParse == pc \in {"parsed", "projected", "exported"}

(* C23: a top-level paragraph with no runs and no numbering label is dropped
   by the parse unless it is the only content of the document, in which case
   it is the one parsed element; a document with nothing else projects to a
   doc whose content is exactly one empty paragraph, and a projected doc
   never has empty content. *)
C23_EmptyDroppedUnlessOnlyContent ==
    AfterParse =>
        /\ IF OnlyContent
           THEN Len(elements) = 1 /\ EmptyParsed(elements[1])
           ELSE /\ \A k \in 1 .. Len(elements) : ~EmptyParsed(elements[k])
                /\ Len(elements) =
                      Cardinality({ i \in BodyContent : ~FullyEmpty(container[i]) })
        /\ pc # "parsed" =>
              /\ tiptap.content # <<>>
              /\ (\A i \in BodyContent : FullyEmpty(container[i]))
                    => OneEmptyParagraph(tiptap.content)

(* what the parse and the projection do with the same paragraphs *)
EmptyAlwaysDropped ==
    AfterParse =>
        /\ \A k \in 1 .. Len(elements) : ~EmptyParsed(elements[k])
        /\ Len(elements) = Cardinality({ i \in BodyContent : ~FullyEmpty(container[i]) })
        /\ pc # "parsed" =>
              /\ tiptap.content # <<>>
              /\ (\A i \in BodyContent : FullyEmpty(container[i]))
                    => tiptap.content = <<EmptyParagraphNode>>

----
(* Properties of the exported cells *)

(* the cell node holds paragraph and heading nodes only, at least one *)
ParagraphsOnly(cell) ==
    /\ Get(cell, "content", <<>>) # <<>>
    /\ \A i \in 1 .. Len(cell.content) : NodeType(cell.content[i]) \in {"paragraph", "heading"}

(* the exported cell has one paragraph per content node of the cell node,
   the i-th with the text of the i-th node *)
ParagraphPerNode(exported, cell) ==
    /\ Len(exported.blocks) = Len(cell.content)
    /\ \A i \in 1 .. Len(cell.content) :
          /\ exported.blocks[i].tag = "w:p"
          /\ ParaText(exported.blocks[i]) = NodeText(cell.content[i])

(* C24: for a table cell node whose content is k >= 1 paragraph or heading
   nodes the exported cell contains exactly k paragraphs, the i-th holding
   the text of the i-th content node; an empty first paragraph followed by a
   non-empty one is exported as two paragraphs.  Read on the cells of the
   top-level tables. *)
C24_OneParagraphPerCellNode ==
    Exported =>
        \A k \in 1 .. Len(tiptap.content) :
            NodeType(tiptap.content[k]) = "table" =>
                LET node == tiptap.content[k]
                IN  \A r \in 1 .. Len(Get(node, "content", <<>>)) :
                      \A c \in 1 .. RowLen(node.content[r]) :
                         ParagraphsOnly(node.content[r].content[c]) =>
                            ParagraphPerNode(
                                document.body[BodyIndex(k)].rows[r].cells[c],
                                node.content[r].content[c])

----
(* Properties of the cell content and the body *)

(* the body-level nodes that put a construct into the body *)
BodyEmitters(nodes) ==
    SelectSeq(BodyLevel(nodes),
              LAMBDA n : NodeType(n) \in {"paragraph", "heading"} \/ HasCell(n))

(* C25: every block node the exporter processes as part of a table cell's
   content is emitted inside that cell: the body holds the constructs of the
   body-level nodes and nothing else, and a table node with a cell that is
   the second or a later node of a cell is a table inside the exported cell.
   Read on the cells of the top-level tables. *)
C25_CellContentStaysInCell ==
    Exported =>
        /\ Len(document.body) = Len(BodyEmitters(tiptap.content))
        /\ \A k \in 1 .. Len(tiptap.content) :
              (NodeType(tiptap.content[k]) = "table" /\ BodyIndex(k) <= Len(document.body)) =>
                 LET node == tiptap.content[k]
                     table == document.body[BodyIndex(k)]
                 IN  table.tag = "w:tbl" =>
                       \A r \in 1 .. Len(Get(node, "content", <<>>)) :
                         \A c \in 1 .. RowLen(node.content[r]) :
                            (\E i \in 2 .. Len(Get(node.content[r].content[c], "content", <<>>)) :
                                 /\ NodeType(node.content[r].content[c].content[i]) = "table"
                                 /\ HasCell(node.content[r].content[c].content[i]))
                            => \E b \in 1 .. Len(table.rows[r].cells[c].blocks) :
                                   table.rows[r].cells[c].blocks[b].tag = "w:tbl"

----
(* Properties of the tracker of a document without numbering definitions *)

(* C26: a tracker built for a document that has no numbering-definitions part
   answers every get_number call without raising, and the label is the
   default template "%1." filled with the level-0 counter of the list. *)
C26_NoNumberingPartDefaultLabel ==
    ~numbering.present =>
        \A k \in CallIdx :
            /\ calls[k].raised = None
            /\ calls[k].label = ToString(CounterRow(calls[k].after, calls[k].num_id)[0]) \o "."

----
(* Properties of the counters a call leaves alone *)

(* C27: get_number(list_id, L) changes only counters[list_id][L..9]: the
   counters of every other list-id, and the counters of list_id at the levels
   shallower than L, are the same after the call as before it, for every call
   of any sequence of calls. *)
C27_OnlyOwnDeeperCountersChange ==
    \A k \in CallIdx :
        /\ \A id \in ListIds \ {calls[k].num_id} :
              /\ id \in DOMAIN calls[k].after <=> id \in DOMAIN calls[k].before
              /\ CounterRow(calls[k].after, id) = CounterRow(calls[k].before, id)
        /\ \A i \in 0 .. (calls[k].ilvl - 1) :
              CounterRow(calls[k].after, calls[k].num_id)[i]
                 = CounterRow(calls[k].before, calls[k].num_id)[i]
        /\ DOMAIN calls[k].after = DOMAIN calls[k].before \cup {calls[k].num_id}

(* the fourth call, at level 2 of list 1, after calls that moved list 2 and
   the levels 0 and 1 of list 1 *)
C27_Witness ==
    /\ Len(calls) = 4
    /\ calls[4].num_id = "1"
    /\ calls[4].ilvl = 2
    /\ "2" \in DOMAIN calls[4].before
    /\ calls[4].before["2"][0] = 1
    /\ calls[4].before["1"][0] = 1
    /\ calls[4].before["1"][1] = 1
    /\ calls[4].after["2"][0] = 1
    /\ calls[4].after["1"][0] = 1
    /\ calls[4].after["1"][1] = 1
    /\ calls[4].after["1"][2] = 1

----
(* Properties of the two projection paths *)

(* C28: the two projection paths agree: the document to_tiptap makes of the
   dataclass elements is the document it makes of elements_to_dict of the
   same elements, for paragraphs, tables with cells holding paragraphs and
   nested tables, and sections. *)
C28_ProjectionPathsAgree ==
    /\ pc = "to_tiptap" => tiptap = to_tiptap(elements_to_dict(elements))
    /\ pc = "to_tiptap(dict)" => tiptap = to_tiptap(elements)

RECURSIVE HoldsNestedTable(_)
(* a table with a table in a cell, at the top level or under a section *)
HoldsNestedTable(elem) ==
    \/ /\ IsA(elem, "Table")
       /\ \E r \in 1 .. Len(elem.rows) : \E c \in 1 .. Len(elem.rows[r].cells) :
            \E i \in 1 .. Len(elem.rows[r].cells[c].content) :
                IsA(elem.rows[r].cells[c].content[i], "Table")
    \/ /\ IsA(elem, "Section")
       /\ \/ \E i \in 1 .. Len(elem.content) : HoldsNestedTable(elem.content[i])
          \/ \E i \in 1 .. Len(elem.children) : HoldsNestedTable(elem.children[i])

(* the paths agree on the elements whose top-level tables have no table in a cell *)
PathsAgreeWithoutNesting ==
    (\A k \in 1 .. Len(elements) : ~(IsA(elements[k], "Table") /\ HoldsNestedTable(elements[k])))
        => C28_ProjectionPathsAgree

====
